---- MODULE Spec2Model ----
(***************************************************************************)
(* Model of the authorization and order-lifecycle core of the restaurant   *)
(* ordering backend (backend/app).  The persistent state is the database   *)
(* tables; every request handler is a sequence of steps split at the       *)
(* points where it reads or commits, because handlers of different         *)
(* requests run against the same PostgreSQL database with no row lock and  *)
(* no version column.                                                      *)
(*                                                                         *)
(* Money is counted in cents (Decimal with two places).                    *)
(***************************************************************************)
EXTENDS Integers, Sequences, FiniteSets, TLC

VARIABLES
    users,        \* table user:        user id -> system role        (DOMAIN = rows)
    memberships,  \* table membership:  set of [user_id, restaurant_id, role]
    restaurants,  \* table restaurant:  restaurant id -> approval_status
    recipes,      \* table recipe:      recipe id -> [restaurant_id, price]
    orders,       \* table order:       order id -> Order row
    items,        \* table orderitem:   order id -> sequence of OrderItem rows
    procs,        \* request slots: the handler's position, its session objects, its response
    websockets,   \* WebSocket objects: the endpoint coroutine's position and the peer
    manager,      \* the ConnectionManager: its two dicts, key -> set object
    sets,         \* the set objects the dicts of the manager were given
    tasks         \* the notify coroutines: iterator, dead_connections, how they ended

\* The live-update channel (routes/websocket_routes.py).
channel == <<websockets, manager, sets, tasks>>

vars == <<users, memberships, restaurants, recipes, orders, items, procs, channel>>

\* ---------------------------------------------------------------------------
\* Bounds of the model
\* ---------------------------------------------------------------------------
NumProcs == 2      \* requests handled at the same time

Procs == 1..NumProcs

None == "None"     \* Python None / SQL NULL
Notes == {"extra napkins"}

\* ---------------------------------------------------------------------------
\* Enumerations (models/enums.py)
\* ---------------------------------------------------------------------------
SystemRole == {"superadmin", "customer", "restaurant_owner", "suspended"}
OrgRole == {"restaurant_admin", "employee"}
ApprovalStatus == {"pending", "approved", "rejected", "suspended"}
OrderStatus == {"pending", "paid", "preparing", "ready", "completed", "cancelled"}

UserIds == {"root", "alice", "bob"}
RestaurantIds == {"X", "Y"}
RecipeIds == {"r1", "r2"}

\* ---------------------------------------------------------------------------
\* The live-update channel: the objects of routes/websocket_routes.py
\* ---------------------------------------------------------------------------
WebSockets == {"w1", "w2", "w3"}

\* The two dicts of the manager and the keys the model connects under.
Dicts == {"restaurant_connections", "customer_connections"}
KeysOf(d) == IF d = "restaurant_connections" THEN {"X"} ELSE {"alice"}

\* A WebSocket the server has not been handed yet.
NotAccepted == [pc |-> "new", dict |-> None, key |-> None, peer |-> "open"]

\* A notify coroutine that is not running and has left nothing to look at.
NoTask == [pc |-> "none", dict |-> None, key |-> None, ref |-> 0, used |-> 0,
           seen |-> {}, websocket |-> None, dead_connections |-> {},
           registered |-> {}, attempted |-> {}, raised |-> None]

\* A dict with no key.
EmptyDict == [k \in {} |-> 0]

\* manager = ConnectionManager(): both dicts are empty; no notify coroutine
\* runs and no WebSocket has been accepted.
InitManager ==
    /\ websockets = [w \in WebSockets |-> NotAccepted]
    /\ manager = [d \in Dicts |-> EmptyDict]
    /\ sets = <<>>
    /\ tasks = [p \in Procs |-> NoTask]

\* ---------------------------------------------------------------------------
\* update_order_status: the transition table of the handler
\* ---------------------------------------------------------------------------
valid_transitions_skip(s) ==
    CASE s = "pending"   -> {"paid", "cancelled", "ready"}
      [] s = "paid"      -> {"preparing", "cancelled"}
      [] s = "preparing" -> {"ready"}
      [] s = "ready"     -> {"completed"}
      [] OTHER           -> {}

valid_transitions(s) ==
    CASE s = "pending"   -> {"paid", "cancelled"}
      [] s = "paid"      -> {"preparing", "cancelled"}
      [] s = "preparing" -> {"ready"}
      [] s = "ready"     -> {"completed"}
      [] s = "completed" -> {}
      [] s = "cancelled" -> {}
      [] OTHER           -> {}

\* The objects create_order holds between its commits: the Order it built and
\* the OrderItem list it computed.
NoDraft == [customer_id |-> None, restaurant_id |-> None, total_amount |-> 0,
            notes |-> None, order_items |-> <<>>]

\* order_to_read_model: the OrderRead built from an order row and its items.
order_to_read_model_without_items(id, order, order_items) ==
    [id |-> id, customer_id |-> order.customer_id, restaurant_id |-> order.restaurant_id,
     status |-> order.status, total_amount |-> order.total_amount, notes |-> order.notes,
     items |-> <<>>]

order_to_read_model(id, order, order_items) ==
    [id |-> id, customer_id |-> order.customer_id, restaurant_id |-> order.restaurant_id,
     status |-> order.status, total_amount |-> order.total_amount, notes |-> order.notes,
     items |-> order_items]

\* No OrderRead.
NoOrderRead ==
    [id |-> 0, customer_id |-> None, restaurant_id |-> None, status |-> None,
     total_amount |-> 0, notes |-> None, items |-> <<>>]

\* A request slot: which handler runs in it, where the handler is, the objects
\* its session holds, and (pc = "done") the response it returned: the status
\* code, the detail of an error, whom the background task it queued notifies
\* and with which OrderRead, and how that task ended once it ran; member and
\* org_role are the Membership object a membership handler has built.
Idle == [op |-> "none", pc |-> "done", user |-> None, restaurant_id |-> None,
         order_id |-> 0, read_status |-> None, set_status |-> None, set_notes |-> None,
         result |-> "none", wrote |-> FALSE, draft |-> NoDraft,
         detail |-> None, notify |-> None, payload |-> NoOrderRead, dispatched |-> None,
         returned |-> {}, member |-> None, org_role |-> None, email |-> None,
         unit_amount |-> 0, restore_role |-> None]

Free(p) == procs[p].pc = "done"

\* The slots of the requests in progress: only the latest response is kept, so
\* the responses returned before are dropped when a slot is written.
Latest == [q \in Procs |-> IF Free(q) THEN Idle ELSE procs[q]]

Respond(p, op, o, notes, result, wrote) ==
    [Latest EXCEPT ![p] = [Idle EXCEPT !.op = op, !.order_id = o, !.set_notes = notes,
                                      !.result = result, !.wrote = wrote]]

\* A request that is served in one step takes the first idle slot.
FirstFree(p) == Free(p) /\ \A q \in Procs : q < p => ~Free(q)

\* The response of a handler behind an access dependency: the principal and the
\* restaurant_id of the request are kept with the status code.
RespondTo(p, op, u, restaurant_id, result) ==
    [Latest EXCEPT ![p] = [Idle EXCEPT !.op = op, !.user = u,
                                      !.restaurant_id = restaurant_id, !.result = result]]

\* What session.commit() writes for a loaded Order: only the attributes whose
\* value was changed on the object (status when it was assigned, notes when a
\* different value was assigned).
FlushLoadedRow(row, p) ==
    [row EXCEPT !.status = IF p.set_status = None THEN p.read_status ELSE p.set_status,
                !.notes  = IF p.set_notes = None THEN @ ELSE p.set_notes]

Flush(row, p) ==
    [row EXCEPT !.status = IF p.set_status = None THEN @ ELSE p.set_status,
                !.notes  = IF p.set_notes = None THEN @ ELSE p.set_notes]

\* Whom the status-changed notification is addressed to: the order's customer.
status_change_recipient_is_caller(o, u) == u

status_change_recipient(o, u) == orders[o].customer_id

\* update_order_status up to its validation: what the handler decides for a
\* request (order id, requested status) against the rows it selects now.
update_order_status_outcome(o, status) ==
    IF o \notin DOMAIN orders THEN "404"
    ELSE IF status # None /\ status \notin valid_transitions(orders[o].status) THEN "400"
    ELSE "commit"

\* update_order_status, first part (the principal is any authenticated user:
\* the handler never looks at it): select the order, validate the transition,
\* assign status and notes on the loaded object.
update_order_status_read(p, u, o, status, notes) ==
    /\ FirstFree(p)
    /\ LET outcome == update_order_status_outcome(o, status) IN
       IF outcome = "404"
       THEN procs' = Respond(p, "update_order_status", 0, None, "404", FALSE)
       ELSE IF outcome = "400"
       THEN procs' = Respond(p, "update_order_status", o, notes, "400", FALSE)
       ELSE procs' = [Latest EXCEPT ![p] =
                        [Idle EXCEPT !.op = "update_order_status", !.pc = "commit",
                                     !.user = u, !.order_id = o,
                                     !.read_status = orders[o].status,
                                     !.set_status = status,
                                     !.set_notes = IF notes = orders[o].notes
                                                   THEN None ELSE notes]]
    /\ UNCHANGED <<users, memberships, restaurants, recipes, orders, items, channel>>

\* update_order_status, second part: session.commit(), session.refresh(order),
\* the response (the notification is queued after it).
update_order_status_commit(p) ==
    /\ procs[p].op = "update_order_status"
    /\ procs[p].pc = "commit"
    /\ LET o == procs[p].order_id IN
       /\ orders' = [orders EXCEPT ![o] = Flush(@, procs[p])]
       /\ procs' = [Respond(p, "update_order_status", o, None, "200",
                            procs[p].set_status # None)
                       EXCEPT ![p].user = procs[p].user,
                              ![p].notify = status_change_recipient(o, procs[p].user),
                              ![p].payload = order_to_read_model(o, Flush(orders[o], procs[p]),
                                                                 items[o])]
    /\ UNCHANGED <<users, memberships, restaurants, recipes, items, channel>>

\* ---------------------------------------------------------------------------
\* stripe_webhook
\* ---------------------------------------------------------------------------
\* What the request carries for verification: a signature that verifies, one
\* that does not, no stripe-signature header, or a verifying signature over a
\* payload that is not an event.
Signatures == {"valid", "invalid", "missing", "malformed"}
EventTypes == {"checkout.session.completed", "payment_intent.payment_failed", "other"}

\* The header check and construct_event: TRUE when the handler gets an event,
\* FALSE when it raises 400.
event_verified_unsigned(sig) == sig \in {"valid", "missing"}

event_verified(sig) == sig = "valid"

\* The webhook marks an order paid only when it finds it and reads it PENDING.
webhook_marks_paid_any(o) == o \in DOMAIN orders

webhook_marks_paid(o) == o \in DOMAIN orders /\ orders[o].status = "pending"

\* stripe_webhook, first part: the signature header, construct_event, the event
\* type, the order_id of the metadata (has_id is FALSE when it is absent), the
\* select.
stripe_webhook_read(p, sig, type, has_id, o) ==
    /\ FirstFree(p)
    /\ IF ~event_verified(sig)
       THEN procs' = Respond(p, "stripe_webhook", 0, None, "400", FALSE)
       ELSE IF type = "checkout.session.completed" /\ has_id /\ webhook_marks_paid(o)
       THEN procs' = [Latest EXCEPT ![p] =
                        [Idle EXCEPT !.op = "stripe_webhook", !.pc = "commit",
                                     !.order_id = o,
                                     !.read_status = orders[o].status,
                                     !.set_status = "paid"]]
       ELSE procs' = Respond(p, "stripe_webhook",
                             IF type = "checkout.session.completed" /\ has_id
                                /\ o \in DOMAIN orders
                             THEN o ELSE 0,
                             None, "200", FALSE)
    /\ UNCHANGED <<users, memberships, restaurants, recipes, orders, items, channel>>

\* stripe_webhook, second part: order.status = PAID, session.commit(), the
\* acknowledgement.
stripe_webhook_commit(p) ==
    /\ procs[p].op = "stripe_webhook"
    /\ procs[p].pc = "commit"
    /\ LET o == procs[p].order_id IN
       /\ orders' = [orders EXCEPT ![o] = Flush(@, procs[p])]
       /\ procs' = Respond(p, "stripe_webhook", o, None, "200", TRUE)
    /\ UNCHANGED <<users, memberships, restaurants, recipes, items, channel>>

\* ---------------------------------------------------------------------------
\* create_checkout_session
\* ---------------------------------------------------------------------------
\* Only the customer who placed the order can pay for it.
pays_own_order_or_any_customer(u, o) == users[u] = "customer"

pays_own_order(u, o) == orders[o].customer_id = u

\* A Decimal: coeff / 10^scale.  Order.total_amount is a Decimal with two
\* decimal places; the model keeps its coefficient, the amount in cents.
total_amount_decimal(o) == [coeff |-> orders[o].total_amount, scale |-> 2]

Pow10(n) == IF n = 0 THEN 1 ELSE IF n = 1 THEN 10 ELSE 100

\* Decimal * int: exact, the exponent is kept.
decimal_times(d, n) == [coeff |-> d.coeff * n, scale |-> d.scale]

\* int(Decimal): truncation toward zero (amounts are not negative).
int_of_decimal(d) == d.coeff \div Pow10(d.scale)

\* "unit_amount": int(order.total_amount * 100), what Stripe is asked to charge.
unit_amount_of_whole_units(o) == int_of_decimal(total_amount_decimal(o)) * 100

unit_amount(o) == int_of_decimal(decimal_times(total_amount_decimal(o), 100))

\* create_checkout_session: select the order, the owner check, the PENDING
\* check, stripe.checkout.Session.create (stripe_ok is FALSE when it raises
\* StripeError), the checkout url.  Nothing is written.
create_checkout_session(p, u, o, stripe_ok) ==
    /\ FirstFree(p)
    /\ LET result == IF o \notin DOMAIN orders THEN "404"
                     ELSE IF ~pays_own_order(u, o) THEN "403"
                     ELSE IF orders[o].status # "pending" THEN "400"
                     ELSE IF ~stripe_ok THEN "500"
                     ELSE "200" IN
       procs' = [Latest EXCEPT ![p] =
                    [Idle EXCEPT !.op = "create_checkout_session", !.user = u,
                                 !.order_id = o, !.result = result,
                                 !.unit_amount = IF result \in {"200", "500"}
                                                 THEN unit_amount(o) ELSE 0]]
    /\ UNCHANGED <<users, memberships, restaurants, recipes, orders, items, channel>>

\* ---------------------------------------------------------------------------
\* Order lifecycle: status updates and payment events on placed orders
\* ---------------------------------------------------------------------------
\* One order placed by create_order: alice ordered 2 x r1 from restaurant X.
PlacedOrder ==
    [customer_id |-> "alice", restaurant_id |-> "X", status |-> "pending",
     total_amount |-> 2598, notes |-> None]

PlacedItems ==
    <<[recipe_id |-> "r1", quantity |-> 2, unit_price |-> 1299, subtotal |-> 2598,
       notes |-> None]>>

Init ==
    /\ InitManager
    /\ users = [u \in UserIds |-> IF u = "root" THEN "superadmin" ELSE "customer"]
    /\ memberships = {}
    /\ restaurants = [r \in RestaurantIds |-> "approved"]
    /\ recipes = [r \in RecipeIds |-> [restaurant_id |-> "X", price |-> 1299]]
    /\ orders = [o \in {1} |-> PlacedOrder]
    /\ items = [o \in {1} |-> PlacedItems]
    /\ procs = [p \in Procs |-> Idle]

UpdateRead ==
    \E p \in Procs, o \in DOMAIN orders \cup {0},
       s \in OrderStatus \cup {None}, n \in Notes \cup {None} :
        \* an unknown order id is answered 404 whatever the request asks for
        /\ o = 0 => s = None
        \* a body sets the status or the notes
        /\ n # None => s = None
        \* the requests are bob's, who neither placed the order nor is staff
        /\ update_order_status_read(p, "bob", o, s, n)

UpdateCommit == \E p \in Procs : update_order_status_commit(p)

WebhookRead ==
    \E p \in Procs, sig \in Signatures, type \in EventTypes, has_id \in BOOLEAN,
       o \in DOMAIN orders \cup {0} :
        \* a rejected event is rejected whatever it carries: the one that names
        \* an order as paid for is enough
        /\ sig # "valid" => (type = "checkout.session.completed" /\ has_id /\ o # 0)
        /\ type # "checkout.session.completed" => (~has_id /\ o = 0)
        /\ stripe_webhook_read(p, sig, type, has_id, o)

WebhookCommit == \E p \in Procs : stripe_webhook_commit(p)

\* alice placed the order; bob is another customer.
CreateCheckoutSession ==
    \E p \in Procs, u \in {"alice", "bob"}, o \in DOMAIN orders \cup {0},
       stripe_ok \in BOOLEAN :
        create_checkout_session(p, u, o, stripe_ok)

Next ==
    \/ UpdateRead \/ UpdateCommit \/ WebhookRead \/ WebhookCommit
    \/ CreateCheckoutSession

Spec == Init /\ [][Next]_vars

\* ---------------------------------------------------------------------------
\* Access decisions (utilities/rbac.py)
\* ---------------------------------------------------------------------------
\* The membership rows the dependency's select can return for (user, restaurant).
membership_of_user(u, restaurant_id) == {m \in memberships : m.user_id = u}

membership_of(u, restaurant_id) ==
    {m \in memberships : m.user_id = u /\ m.restaurant_id = restaurant_id}

\* require_org_or_system_roles(system_roles, org_roles).dependency: TRUE when
\* the dependency returns current_user, FALSE when it raises 403.
require_org_or_system_roles(u, restaurant_id, system_roles, org_roles) ==
    \/ users[u] \in system_roles
    \/ \E m \in membership_of(u, restaurant_id) : m.role \in org_roles

\* require_system_roles(*roles).dependency
require_system_roles(u, roles) == users[u] \in roles

\* admin_routes.require_superadmin
require_superadmin(u) == users[u] = "superadmin"

\* The allowlists of the access control shortcuts.
restaurant_creation_access == [system_roles |-> {"superadmin"}, org_roles |-> {}]

manage_restaurant_access ==
    [system_roles |-> {"superadmin"}, org_roles |-> {"restaurant_admin"}]

edit_menu_access_admin_only ==
    [system_roles |-> {"superadmin"}, org_roles |-> {"restaurant_admin"}]

edit_menu_access ==
    [system_roles |-> {"superadmin"}, org_roles |-> {"restaurant_admin", "employee"}]

read_restaurant_access ==
    [system_roles |-> {"superadmin"}, org_roles |-> {"restaurant_admin", "employee"}]

require_restaurant_creation_access(u) ==
    require_system_roles(u, restaurant_creation_access.system_roles)

require_manage_restaurant_access(u, restaurant_id) ==
    require_org_or_system_roles(u, restaurant_id, manage_restaurant_access.system_roles,
                                manage_restaurant_access.org_roles)

require_edit_menu_access(u, restaurant_id) ==
    require_org_or_system_roles(u, restaurant_id, edit_menu_access.system_roles,
                                edit_menu_access.org_roles)

require_read_restaurant_access(u, restaurant_id) ==
    require_org_or_system_roles(u, restaurant_id, read_restaurant_access.system_roles,
                                read_restaurant_access.org_roles)

\* ---------------------------------------------------------------------------
\* create_order
\* ---------------------------------------------------------------------------
\* Request bodies: the item lists (recipe_id, quantity) a client sends.
\* "r9" is the id of no recipe.
ItemLists ==
    { <<>>,
      <<[recipe_id |-> "r1", quantity |-> 0]>>,
      <<[recipe_id |-> "r1", quantity |-> 2]>>,
      <<[recipe_id |-> "r1", quantity |-> 1], [recipe_id |-> "r2", quantity |-> 3]>>,
      <<[recipe_id |-> "r9", quantity |-> 1]>> }

\* The select of the item loop: the recipe with this id in this restaurant.
recipe_in_restaurant(recipe_id, restaurant_id) ==
    /\ recipe_id \in DOMAIN recipes
    /\ recipes[recipe_id].restaurant_id = restaurant_id

\* The OrderItem built for one requested item: the price is the recipe's now.
make_order_item_free(item_data) ==
    [recipe_id |-> item_data.recipe_id, quantity |-> item_data.quantity,
     unit_price |-> 0, subtotal |-> 0, notes |-> None]

make_order_item(item_data) ==
    [recipe_id |-> item_data.recipe_id, quantity |-> item_data.quantity,
     unit_price |-> recipes[item_data.recipe_id].price,
     subtotal |-> recipes[item_data.recipe_id].price * item_data.quantity,
     notes |-> None]

RECURSIVE calculate_order_total(_)
calculate_order_total(order_items) ==
    IF order_items = <<>> THEN 0
    ELSE Head(order_items).subtotal + calculate_order_total(Tail(order_items))

\* create_order up to the point where it builds the Order: the error it
\* raises, or None.  The body is validated against OrderCreate before the
\* handler runs (OrderItemCreate.quantity has ge=1).
is_customer_or_staff(u) == users[u] # "suspended"

is_customer(u) == users[u] = "customer"

accepts_orders_when_suspended(restaurant_id) ==
    restaurants[restaurant_id] \in {"approved", "suspended"}

accepts_orders(restaurant_id) == restaurants[restaurant_id] = "approved"

has_items_or_none(item_list) == TRUE

has_items(item_list) == item_list # <<>>

create_order_error(u, restaurant_id, item_list) ==
    IF \E i \in 1..Len(item_list) : item_list[i].quantity < 1 THEN "validation error"
    ELSE IF ~is_customer(u) THEN "Only customers can place orders"
    ELSE IF restaurant_id \notin DOMAIN restaurants THEN "Restaurant not found"
    ELSE IF ~accepts_orders(restaurant_id) THEN "restaurant not available"
    ELSE IF ~has_items(item_list) THEN "Order must contain at least one item"
    ELSE IF \E i \in 1..Len(item_list) :
                ~recipe_in_restaurant(item_list[i].recipe_id, restaurant_id)
         THEN "Recipe not found in this restaurant"
    ELSE None

\* The status code of the error, or "ok".
create_order_outcome(u, restaurant_id, item_list) ==
    LET error == create_order_error(u, restaurant_id, item_list) IN
    CASE error = None -> "ok"
      [] error = "validation error" -> "422"
      [] error = "Only customers can place orders" -> "403"
      [] error = "Restaurant not found" -> "404"
      [] OTHER -> "400"

\* The Order object the handler builds.
new_order_paid(customer_id, restaurant_id, total_amount, notes) ==
    [customer_id |-> customer_id, restaurant_id |-> restaurant_id, status |-> "paid",
     total_amount |-> total_amount, notes |-> notes]

new_order(customer_id, restaurant_id, total_amount, notes) ==
    [customer_id |-> customer_id, restaurant_id |-> restaurant_id, status |-> "pending",
     total_amount |-> total_amount, notes |-> notes]

\* create_order, first part: the checks, the item loop, the total, the Order
\* object.  Nothing is written yet.
create_order_read(p, u, restaurant_id, item_list, notes) ==
    /\ FirstFree(p)
    /\ LET outcome == create_order_outcome(u, restaurant_id, item_list) IN
       IF outcome # "ok"
       THEN procs' = [Respond(p, "create_order", 0, None, outcome, FALSE)
                        EXCEPT ![p].detail = create_order_error(u, restaurant_id, item_list)]
       ELSE LET order_items == [i \in 1..Len(item_list) |-> make_order_item(item_list[i])] IN
            procs' = [Latest EXCEPT ![p] =
                        [Idle EXCEPT !.op = "create_order", !.pc = "insert_order",
                                     !.user = u, !.restaurant_id = restaurant_id,
                                     !.draft =
                                        [customer_id |-> u, restaurant_id |-> restaurant_id,
                                         total_amount |-> calculate_order_total(order_items),
                                         notes |-> notes, order_items |-> order_items]]]
    /\ UNCHANGED <<users, memberships, restaurants, recipes, orders, items, channel>>

\* The id the database gives the next order row.
next_order_id == Cardinality(DOMAIN orders) + 1

\* create_order, second part: session.add(new_order), session.commit(),
\* session.refresh(new_order).  The order row is committed without its items.
create_order_insert_order(p) ==
    /\ procs[p].op = "create_order"
    /\ procs[p].pc = "insert_order"
    /\ LET o == next_order_id
           d == procs[p].draft IN
       /\ orders' = orders @@ (o :> new_order(d.customer_id, d.restaurant_id,
                                              d.total_amount, d.notes))
       /\ items' = items @@ (o :> <<>>)
       /\ procs' = [procs EXCEPT ![p].pc = "insert_items", ![p].order_id = o]
    /\ UNCHANGED <<users, memberships, restaurants, recipes, channel>>

\* create_order, third part: the items get the order id and are added, the
\* second session.commit(), the 201 response and the notification of the
\* restaurant queued with it.
create_order_insert_items(p) ==
    /\ procs[p].op = "create_order"
    /\ procs[p].pc = "insert_items"
    /\ LET o == procs[p].order_id IN
       /\ items' = [items EXCEPT ![o] = procs[p].draft.order_items]
       /\ procs' = [Respond(p, "create_order", 0, None, "201", TRUE)
                       EXCEPT ![p].notify = procs[p].draft.restaurant_id,
                              ![p].payload = order_to_read_model(o, orders[o],
                                                                 procs[p].draft.order_items)]
    /\ UNCHANGED <<users, memberships, restaurants, recipes, orders, channel>>

\* update_recipe: the access dependency on the restaurant_id of the query, the
\* select by recipe id, setattr for the fields the body sets (restaurant_id is
\* the one the model keeps; RecipeUpdate has no price), commit.
update_recipe(p, u, restaurant_id, recipe_id, new_restaurant_id) ==
    /\ FirstFree(p)
    /\ IF ~require_edit_menu_access(u, restaurant_id)
       THEN /\ procs' = RespondTo(p, "update_recipe", u, restaurant_id, "403")
            /\ UNCHANGED recipes
       ELSE IF recipe_id \notin DOMAIN recipes
       THEN /\ procs' = RespondTo(p, "update_recipe", u, restaurant_id, "404")
            /\ UNCHANGED recipes
       ELSE /\ recipes' = [recipes EXCEPT ![recipe_id].restaurant_id =
                              IF new_restaurant_id = None THEN @ ELSE new_restaurant_id]
            /\ procs' = RespondTo(p, "update_recipe", u, restaurant_id, "200")
    /\ UNCHANGED <<users, memberships, restaurants, orders, items, channel>>

\* approve_restaurant and suspend_restaurant of routes/restaurant_routes.py:
\* superadmin only; the status is assigned whatever it was.
approve_restaurant(p, u, restaurant_id) ==
    /\ FirstFree(p)
    /\ IF ~require_system_roles(u, {"superadmin"})
       THEN /\ procs' = RespondTo(p, "approve_restaurant", u, restaurant_id, "403")
            /\ UNCHANGED restaurants
       ELSE IF restaurant_id \notin DOMAIN restaurants
       THEN /\ procs' = RespondTo(p, "approve_restaurant", u, restaurant_id, "404")
            /\ UNCHANGED restaurants
       ELSE /\ restaurants' = [restaurants EXCEPT ![restaurant_id] = "approved"]
            /\ procs' = RespondTo(p, "approve_restaurant", u, restaurant_id, "200")
    /\ UNCHANGED <<users, memberships, recipes, orders, items, channel>>

suspend_restaurant(p, u, restaurant_id) ==
    /\ FirstFree(p)
    /\ IF ~require_system_roles(u, {"superadmin"})
       THEN /\ procs' = RespondTo(p, "suspend_restaurant", u, restaurant_id, "403")
            /\ UNCHANGED restaurants
       ELSE IF restaurant_id \notin DOMAIN restaurants
       THEN /\ procs' = RespondTo(p, "suspend_restaurant", u, restaurant_id, "404")
            /\ UNCHANGED restaurants
       ELSE /\ restaurants' = [restaurants EXCEPT ![restaurant_id] = "suspended"]
            /\ procs' = RespondTo(p, "suspend_restaurant", u, restaurant_id, "200")
    /\ UNCHANGED <<users, memberships, recipes, orders, items, channel>>

\* ---------------------------------------------------------------------------
\* Order creation: customers place orders while staff edit the menu and the
\* superadmin suspends and re-approves the restaurant
\* ---------------------------------------------------------------------------
\* The ids the database gives to the orders placed in one run.
OrderIds == {1, 2}

InitCreate ==
    /\ InitManager
    /\ users = [u \in UserIds \cup {"mallory"} |->
                    CASE u = "root" -> "superadmin"
                      [] u = "alice" -> "customer"
                      [] u = "mallory" -> "suspended"
                      [] OTHER -> "restaurant_owner"]
    /\ memberships = {[user_id |-> "bob", restaurant_id |-> "X", role |-> "restaurant_admin"]}
    /\ restaurants = [r \in RestaurantIds |-> IF r = "X" THEN "approved" ELSE "pending"]
    /\ recipes = [r \in RecipeIds |->
                    [restaurant_id |-> "X", price |-> IF r = "r1" THEN 1299 ELSE 850]]
    /\ orders = <<>>
    /\ items = <<>>
    /\ procs = [p \in Procs |-> Idle]

\* Orders persisted or about to be.
orders_in_progress ==
    Cardinality(DOMAIN orders) + Cardinality({p \in Procs : procs[p].pc = "insert_order"})

CreateRead ==
    \E p \in Procs, u \in DOMAIN users, r \in RestaurantIds \cup {"Z"},
       item_list \in ItemLists :
        /\ orders_in_progress < Cardinality(OrderIds)
        \* the body carries no order notes
        /\ create_order_read(p, u, r, item_list, None)

CreateInsertOrder == \E p \in Procs : create_order_insert_order(p)

CreateInsertItems == \E p \in Procs : create_order_insert_items(p)

UpdateRecipe ==
    \E p \in Procs, u \in UserIds, r \in RestaurantIds, recipe_id \in RecipeIds \cup {"r9"},
       new_restaurant_id \in RestaurantIds :
        update_recipe(p, u, r, recipe_id, new_restaurant_id)

\* The superadmin, or the restaurant's owner trying to, on restaurant X.
ApproveRestaurant == \E p \in Procs, u \in {"root", "bob"} : approve_restaurant(p, u, "X")

SuspendRestaurant == \E p \in Procs, u \in {"root", "bob"} : suspend_restaurant(p, u, "X")

NextCreate ==
    \/ CreateRead \/ CreateInsertOrder \/ CreateInsertItems \/ UpdateRecipe
    \/ ApproveRestaurant \/ SuspendRestaurant

SpecCreate == InitCreate /\ [][NextCreate]_vars

\* ---------------------------------------------------------------------------
\* Restaurant management, memberships, invitations, suspension
\* (routes/restaurant_routes.py, routes/admin_routes.py).  Each of these
\* handlers runs its access dependency first and commits at most once.
\* ---------------------------------------------------------------------------
Membership(u, restaurant_id, role) ==
    [user_id |-> u, restaurant_id |-> restaurant_id, role |-> role]

\* get_restaurants: the list of all restaurants, for superadmins.
get_restaurants(p, u) ==
    /\ FirstFree(p)
    /\ procs' = RespondTo(p, "get_restaurants", u, None,
                          IF require_system_roles(u, {"superadmin"}) THEN "200" ELSE "403")
    /\ UNCHANGED <<users, memberships, restaurants, recipes, orders, items, channel>>

get_restaurant(p, u, restaurant_id) ==
    /\ FirstFree(p)
    /\ procs' = RespondTo(p, "get_restaurant", u, restaurant_id,
                          IF ~require_read_restaurant_access(u, restaurant_id) THEN "403"
                          ELSE IF restaurant_id \notin DOMAIN restaurants THEN "404"
                          ELSE "200")
    /\ UNCHANGED <<users, memberships, restaurants, recipes, orders, items, channel>>

\* update_restaurant: setattr for every field the body sets; approval_status
\* is one of the fields of RestaurantUpdate (None: the body leaves it out).
update_restaurant(p, u, restaurant_id, approval_status) ==
    /\ FirstFree(p)
    /\ IF ~require_manage_restaurant_access(u, restaurant_id)
       THEN /\ procs' = RespondTo(p, "update_restaurant", u, restaurant_id, "403")
            /\ UNCHANGED restaurants
       ELSE IF restaurant_id \notin DOMAIN restaurants
       THEN /\ procs' = RespondTo(p, "update_restaurant", u, restaurant_id, "404")
            /\ UNCHANGED restaurants
       ELSE /\ restaurants' = [restaurants EXCEPT ![restaurant_id] =
                                 IF approval_status = None THEN @ ELSE approval_status]
            /\ procs' = RespondTo(p, "update_restaurant", u, restaurant_id, "200")
    /\ UNCHANGED <<users, memberships, recipes, orders, items, channel>>

\* delete_restaurant: the delete cascades to the restaurant's recipes and
\* memberships; a restaurant that orders still reference cannot be deleted
\* (foreign key of order.restaurant_id).
cascade_none(restaurant_id) == memberships

\* Relationship(cascade="all, delete-orphan"): the memberships that are left.
cascade(restaurant_id) == {m \in memberships : m.restaurant_id # restaurant_id}

delete_restaurant(p, u, restaurant_id) ==
    /\ FirstFree(p)
    /\ IF ~require_manage_restaurant_access(u, restaurant_id)
       THEN /\ procs' = RespondTo(p, "delete_restaurant", u, restaurant_id, "403")
            /\ UNCHANGED <<restaurants, memberships, recipes, channel>>
       ELSE IF restaurant_id \notin DOMAIN restaurants
       THEN /\ procs' = RespondTo(p, "delete_restaurant", u, restaurant_id, "404")
            /\ UNCHANGED <<restaurants, memberships, recipes, channel>>
       ELSE IF \E o \in DOMAIN orders : orders[o].restaurant_id = restaurant_id
       THEN /\ procs' = RespondTo(p, "delete_restaurant", u, restaurant_id, "500")
            /\ UNCHANGED <<restaurants, memberships, recipes, channel>>
       ELSE /\ restaurants' = [r \in DOMAIN restaurants \ {restaurant_id} |-> restaurants[r]]
            /\ memberships' = cascade(restaurant_id)
            /\ recipes' = [r \in {x \in DOMAIN recipes :
                                    recipes[x].restaurant_id # restaurant_id} |-> recipes[r]]
            /\ procs' = RespondTo(p, "delete_restaurant", u, restaurant_id, "204")
    /\ UNCHANGED <<users, orders, items, channel>>

get_memberships(p, u, restaurant_id) ==
    /\ FirstFree(p)
    /\ procs' = RespondTo(p, "get_memberships", u, restaurant_id,
                          IF require_manage_restaurant_access(u, restaurant_id)
                          THEN "200" ELSE "403")
    /\ UNCHANGED <<users, memberships, restaurants, recipes, orders, items, channel>>

\* add_member: the user is looked up by email (a user's email is its id here);
\* membership.restaurant_id is a foreign key, so the insert fails for a
\* restaurant that does not exist.
add_member(p, u, restaurant_id, email, role) ==
    /\ FirstFree(p)
    /\ IF ~require_manage_restaurant_access(u, restaurant_id)
       THEN /\ procs' = RespondTo(p, "add_member", u, restaurant_id, "403")
            /\ UNCHANGED memberships
       ELSE IF email \notin DOMAIN users
       THEN /\ procs' = RespondTo(p, "add_member", u, restaurant_id, "404")
            /\ UNCHANGED memberships
       ELSE IF membership_of(email, restaurant_id) # {}
       THEN /\ procs' = RespondTo(p, "add_member", u, restaurant_id, "400")
            /\ UNCHANGED memberships
       ELSE IF restaurant_id \notin DOMAIN restaurants
       THEN /\ procs' = RespondTo(p, "add_member", u, restaurant_id, "500")
            /\ UNCHANGED memberships
       ELSE /\ memberships' = memberships \cup {Membership(email, restaurant_id, role)}
            /\ procs' = RespondTo(p, "add_member", u, restaurant_id, "201")
    /\ UNCHANGED <<users, restaurants, recipes, orders, items, channel>>

\* The select of update_membership and remove_member: the membership with this
\* id (here: the membership of member in its restaurant) within restaurant_id.
membership_by_id(member, member_restaurant, restaurant_id) ==
    {m \in membership_of(member, member_restaurant) : m.restaurant_id = restaurant_id}

update_membership(p, u, restaurant_id, member, member_restaurant, role) ==
    /\ FirstFree(p)
    /\ IF ~require_manage_restaurant_access(u, restaurant_id)
       THEN /\ procs' = RespondTo(p, "update_membership", u, restaurant_id, "403")
            /\ UNCHANGED memberships
       ELSE IF membership_by_id(member, member_restaurant, restaurant_id) = {}
       THEN /\ procs' = RespondTo(p, "update_membership", u, restaurant_id, "404")
            /\ UNCHANGED memberships
       ELSE /\ memberships' =
                 (memberships \ membership_by_id(member, member_restaurant, restaurant_id))
                 \cup {Membership(member, restaurant_id, role)}
            /\ procs' = RespondTo(p, "update_membership", u, restaurant_id, "200")
    /\ UNCHANGED <<users, restaurants, recipes, orders, items, channel>>

\* "Prevent removing yourself": membership.user_id == current_user.id.
removes_self_never(u, member) == FALSE

removes_self(u, member) == member = u

remove_member(p, u, restaurant_id, member, member_restaurant) ==
    /\ FirstFree(p)
    /\ IF ~require_manage_restaurant_access(u, restaurant_id)
       THEN /\ procs' = RespondTo(p, "remove_member", u, restaurant_id, "403")
            /\ UNCHANGED memberships
       ELSE IF membership_by_id(member, member_restaurant, restaurant_id) = {}
       THEN /\ procs' = RespondTo(p, "remove_member", u, restaurant_id, "404")
            /\ UNCHANGED memberships
       ELSE IF removes_self(u, member)
       THEN /\ procs' = RespondTo(p, "remove_member", u, restaurant_id, "400")
            /\ UNCHANGED memberships
       ELSE /\ memberships' =
                 memberships \ membership_by_id(member, member_restaurant, restaurant_id)
            /\ procs' = RespondTo(p, "remove_member", u, restaurant_id, "204")
    /\ UNCHANGED <<users, restaurants, recipes, orders, items, channel>>

\* invite_staff: issues a signed invitation token for (email, restaurant_id,
\* role) and mails it; nothing is written to the database.
invite_staff(p, u, restaurant_id, email, role) ==
    /\ FirstFree(p)
    /\ procs' = RespondTo(p, "invite_staff", u, restaurant_id,
                          IF ~require_manage_restaurant_access(u, restaurant_id) THEN "403"
                          ELSE IF restaurant_id \notin DOMAIN restaurants THEN "404"
                          ELSE IF email \in DOMAIN users
                                  /\ membership_of(email, restaurant_id) # {} THEN "400"
                          ELSE "200")
    /\ UNCHANGED <<users, memberships, restaurants, recipes, orders, items, channel>>

\* The invitation tokens that verify: the superadmin can have invite_staff issue
\* one for any email, role and existing restaurant at any time.
InvitationTokens ==
    [email : UserIds \ {"root"}, restaurant_id : RestaurantIds, role : OrgRole]

unverified_token(u) ==
    [email |-> IF u = "root" THEN "alice" ELSE u, restaurant_id |-> "X", role |-> "employee"]

\* accept_invitation: any logged-in user; verifies is what
\* verify_staff_invitation_token finds for the token of the request.
accept_invitation(p, u, verifies, token) ==
    /\ FirstFree(p)
    /\ IF ~verifies
       THEN /\ procs' = RespondTo(p, "accept_invitation", u, None, "400")
            /\ UNCHANGED memberships
       ELSE IF u # token.email
       THEN /\ procs' = RespondTo(p, "accept_invitation", u, token.restaurant_id, "403")
            /\ UNCHANGED memberships
       ELSE IF token.restaurant_id \notin DOMAIN restaurants
       THEN /\ procs' = RespondTo(p, "accept_invitation", u, token.restaurant_id, "404")
            /\ UNCHANGED memberships
       ELSE IF membership_of(u, token.restaurant_id) # {}
       THEN /\ procs' = RespondTo(p, "accept_invitation", u, token.restaurant_id, "400")
            /\ UNCHANGED memberships
       ELSE /\ memberships' = memberships
                                \cup {Membership(u, token.restaurant_id, token.role)}
            /\ procs' = RespondTo(p, "accept_invitation", u, token.restaurant_id, "200")
    /\ UNCHANGED <<users, restaurants, recipes, orders, items, channel>>

suspend_user(p, u, user_id) ==
    /\ FirstFree(p)
    /\ IF ~require_superadmin(u)
       THEN /\ procs' = RespondTo(p, "suspend_user", u, None, "403")
            /\ UNCHANGED users
       ELSE IF user_id \notin DOMAIN users
       THEN /\ procs' = RespondTo(p, "suspend_user", u, None, "404")
            /\ UNCHANGED users
       ELSE IF users[user_id] = "superadmin"
       THEN /\ procs' = RespondTo(p, "suspend_user", u, None, "403")
            /\ UNCHANGED users
       ELSE /\ users' = [users EXCEPT ![user_id] = "suspended"]
            /\ procs' = RespondTo(p, "suspend_user", u, None, "200")
    /\ UNCHANGED <<memberships, restaurants, recipes, orders, items, channel>>

\* ---------------------------------------------------------------------------
\* Access control: staff and the superadmin manage restaurants and members
\* ---------------------------------------------------------------------------
InitAccess ==
    /\ InitManager
    /\ users = [u \in UserIds |-> CASE u = "root" -> "superadmin"
                                    [] u = "alice" -> "restaurant_owner"
                                    [] OTHER -> "customer"]
    /\ memberships = {Membership("alice", "X", "restaurant_admin")}
    /\ restaurants = [r \in RestaurantIds |-> IF r = "X" THEN "approved" ELSE "pending"]
    /\ recipes = [r \in RecipeIds |->
                    [restaurant_id |-> "X", price |-> IF r = "r1" THEN 1299 ELSE 850]]
    /\ orders = <<>>
    /\ items = <<>>
    /\ procs = [p \in Procs |-> Idle]

\* The members a membership request names (the superadmin is never a member).
Members == UserIds \ {"root"}

GetRestaurants == \E p \in Procs, u \in UserIds : get_restaurants(p, u)

GetRestaurant ==
    \E p \in Procs, u \in UserIds, r \in RestaurantIds : get_restaurant(p, u, r)

UpdateRestaurant ==
    \E p \in Procs, u \in UserIds, r \in RestaurantIds,
       approval_status \in {None, "approved"} :
        update_restaurant(p, u, r, approval_status)

DeleteRestaurant ==
    \E p \in Procs, u \in UserIds, r \in RestaurantIds : delete_restaurant(p, u, r)

GetMemberships ==
    \E p \in Procs, u \in UserIds, r \in RestaurantIds : get_memberships(p, u, r)

AddMember ==
    \E p \in Procs, u \in UserIds, r \in RestaurantIds, email \in Members, role \in OrgRole :
        add_member(p, u, r, email, role)

\* The membership ids a request names: those of the table and one of no row.
MembershipIds == memberships \cup {Membership("bob", "Y", "employee")}

UpdateMembership ==
    \E p \in Procs, u \in UserIds, r \in RestaurantIds, m \in MembershipIds,
       role \in OrgRole :
        update_membership(p, u, r, m.user_id, m.restaurant_id, role)

RemoveMember ==
    \E p \in Procs, u \in UserIds, r \in RestaurantIds, m \in MembershipIds :
        remove_member(p, u, r, m.user_id, m.restaurant_id)

InviteStaff ==
    \E p \in Procs, u \in UserIds, r \in RestaurantIds, email \in Members, role \in OrgRole :
        invite_staff(p, u, r, email, role)

AcceptInvitation ==
    \E p \in Procs, u \in UserIds, verifies \in BOOLEAN, token \in InvitationTokens :
        \* a token that does not verify is rejected whatever it says
        /\ ~verifies => token = unverified_token(u)
        \* a token for another email is rejected whatever role it carries
        /\ u # token.email => token.role = "employee"
        /\ accept_invitation(p, u, verifies, token)

\* The accounts a suspension request names: the superadmin's and a staff member's.
SuspendUser ==
    \E p \in Procs, u \in UserIds, user_id \in {"root", "alice"} : suspend_user(p, u, user_id)

EditMenu ==
    \E p \in Procs, u \in UserIds, r \in RestaurantIds :
        \* the body renames recipe r1
        update_recipe(p, u, r, "r1", None)

NextAccess ==
    \/ GetRestaurants \/ GetRestaurant \/ UpdateRestaurant \/ DeleteRestaurant
    \/ GetMemberships \/ AddMember \/ UpdateMembership \/ RemoveMember
    \/ InviteStaff \/ AcceptInvitation \/ SuspendUser \/ EditMenu

SpecAccess == InitAccess /\ [][NextAccess]_vars

\* ---------------------------------------------------------------------------
\* Registration (routes/auth_routes.py): public endpoints, no principal.  A
\* user's username and email are its id here.
\* ---------------------------------------------------------------------------
\* register_user: role, org_role and restaurant_id are fields of the request
\* body (UserCreate); None is a field the body leaves out.  The user is
\* committed before the membership is added, and membership.restaurant_id is
\* a foreign key.
register_user(p, username, role, org_role, restaurant_id) ==
    /\ FirstFree(p)
    /\ IF username \in DOMAIN users
       THEN /\ procs' = RespondTo(p, "register_user", username, None, "400")
            /\ UNCHANGED <<users, memberships, channel>>
       ELSE /\ users' = users @@ (username :> IF role # None THEN role ELSE "customer")
            /\ IF org_role # None /\ restaurant_id # None
               THEN IF restaurant_id \in DOMAIN restaurants
                    THEN /\ memberships' = memberships
                                \cup {Membership(username, restaurant_id, org_role)}
                         /\ procs' = RespondTo(p, "register_user", username,
                                               restaurant_id, "201")
                    ELSE /\ UNCHANGED memberships
                         /\ procs' = RespondTo(p, "register_user", username,
                                               restaurant_id, "500")
               ELSE /\ UNCHANGED memberships
                    /\ procs' = RespondTo(p, "register_user", username, None, "201")
    /\ UNCHANGED <<restaurants, recipes, orders, items, channel>>

\* The id the database gives the next restaurant row.
next_restaurant_id == CHOOSE r \in RestaurantIds : r \notin DOMAIN restaurants

\* register_restaurant_owner: the user with the RESTAURANT_OWNER role, the
\* restaurant (approval_status defaults to PENDING), the RESTAURANT_ADMIN
\* membership.
register_restaurant_owner(p, username) ==
    /\ FirstFree(p)
    /\ IF username \in DOMAIN users
       THEN /\ procs' = RespondTo(p, "register_restaurant_owner", username, None, "400")
            /\ UNCHANGED <<users, restaurants, memberships, channel>>
       ELSE /\ users' = users @@ (username :> "restaurant_owner")
            /\ restaurants' = restaurants @@ (next_restaurant_id :> "pending")
            /\ memberships' = memberships
                   \cup {Membership(username, next_restaurant_id, "restaurant_admin")}
            /\ procs' = RespondTo(p, "register_restaurant_owner", username,
                                  next_restaurant_id, "201")
    /\ UNCHANGED <<recipes, orders, items, channel>>

\* Only the seeded superadmin exists; restaurant X is open.
InitReg ==
    /\ InitManager
    /\ users = [u \in {"root"} |-> "superadmin"]
    /\ memberships = {}
    /\ restaurants = [r \in {"X"} |-> "approved"]
    /\ recipes = [r \in RecipeIds |->
                    [restaurant_id |-> "X", price |-> IF r = "r1" THEN 1299 ELSE 850]]
    /\ orders = <<>>
    /\ items = <<>>
    /\ procs = [p \in Procs |-> Idle]

RegisterUser ==
    \E p \in Procs, username \in UserIds, role \in SystemRole \cup {None},
       org_role \in OrgRole \cup {None}, restaurant_id \in RestaurantIds \cup {None} :
        register_user(p, username, role, org_role, restaurant_id)

RegisterRestaurantOwner ==
    \E p \in Procs, username \in UserIds :
        \* restaurant ids left for the new restaurant
        /\ RestaurantIds \ DOMAIN restaurants # {}
        /\ register_restaurant_owner(p, username)

NextReg == RegisterUser \/ RegisterRestaurantOwner

SpecReg == InitReg /\ [][NextReg]_vars

\* ---------------------------------------------------------------------------
\* Reading orders (routes/order_routes.py) and the notifications of order
\* events (routes/websocket_routes.py)
\* ---------------------------------------------------------------------------
\* The select of get_my_orders: the ids of the rows it returns.
my_orders_of_anyone(u) == DOMAIN orders

my_orders(u) == {o \in DOMAIN orders : orders[o].customer_id = u}

\* get_my_orders: customers only; the listing is in `returned`.
get_my_orders(p, u) ==
    /\ FirstFree(p)
    /\ procs' = [Latest EXCEPT ![p] =
                   IF users[u] # "customer"
                   THEN [Idle EXCEPT !.op = "get_my_orders", !.user = u, !.result = "403"]
                   ELSE [Idle EXCEPT !.op = "get_my_orders", !.user = u, !.result = "200",
                                     !.returned = my_orders(u)]]
    /\ UNCHANGED <<users, memberships, restaurants, recipes, orders, items, channel>>

\* get_order: select by id; a CUSTOMER is refused an order that is not theirs;
\* there is no check for any other principal.
get_order(p, u, o) ==
    /\ FirstFree(p)
    /\ procs' = [Latest EXCEPT ![p] =
                   IF o \notin DOMAIN orders
                   THEN [Idle EXCEPT !.op = "get_order", !.user = u, !.order_id = o,
                                     !.result = "404"]
                   ELSE IF users[u] = "customer" /\ orders[o].customer_id # u
                   THEN [Idle EXCEPT !.op = "get_order", !.user = u, !.order_id = o,
                                     !.result = "403"]
                   ELSE [Idle EXCEPT !.op = "get_order", !.user = u, !.order_id = o,
                                     !.result = "200", !.returned = {o}]]
    /\ UNCHANGED <<users, memberships, restaurants, recipes, orders, items, channel>>

\* A response was returned and the background task it queued has not run.
task_pending(p) ==
    procs[p].pc = "done" /\ procs[p].notify # None /\ procs[p].dispatched = None

\* What the request's caller got once the task has run: the sends raise into
\* the manager, which catches them, and the response was sent before.
response_after_task_fails(result, delivered) == IF delivered THEN result ELSE "500"

response_after_task(result, delivered) == result

\* The background task of a response: notify_new_order or
\* notify_order_status_change sends the payload to the connections of the
\* channel; delivered is FALSE when nobody is connected or a send raises.
run_background_task(p, delivered) ==
    /\ task_pending(p)
    /\ procs' = [procs EXCEPT ![p].dispatched = IF delivered THEN "sent" ELSE "failed",
                              ![p].result = response_after_task(@, delivered)]
    /\ UNCHANGED <<users, memberships, restaurants, recipes, orders, items, channel>>

\* Two customers; dave owns restaurant Y; the orders are placed at X.
InitOrders ==
    /\ InitManager
    /\ users = [u \in {"alice", "bob", "dave"} |->
                    IF u = "dave" THEN "restaurant_owner" ELSE "customer"]
    /\ memberships = {Membership("dave", "Y", "restaurant_admin")}
    /\ restaurants = [r \in RestaurantIds |-> "approved"]
    /\ recipes = [r \in RecipeIds |->
                    [restaurant_id |-> "X", price |-> IF r = "r1" THEN 1299 ELSE 850]]
    /\ orders = <<>>
    /\ items = <<>>
    /\ procs = [p \in Procs |-> Idle]

\* The task of a response runs before the next request is taken up.
NoTaskPending == \A p \in Procs : ~task_pending(p)

PlaceOrder ==
    \E p \in Procs, u \in DOMAIN users :
        /\ NoTaskPending
        /\ orders_in_progress < Cardinality(OrderIds)
        /\ create_order_read(p, u, "X", <<[recipe_id |-> "r1", quantity |-> 2]>>, None)

PlaceOrderInsertOrder == NoTaskPending /\ CreateInsertOrder

PlaceOrderInsertItems == NoTaskPending /\ CreateInsertItems

\* dave, who is no staff of X, marks orders paid or cancels them.
ChangeStatus ==
    \E p \in Procs, u \in {"dave"}, o \in DOMAIN orders, s \in {"paid", "cancelled"} :
        /\ NoTaskPending
        /\ update_order_status_read(p, u, o, s, None)

ChangeStatusCommit == NoTaskPending /\ UpdateCommit

GetMyOrders == \E p \in Procs, u \in DOMAIN users : NoTaskPending /\ get_my_orders(p, u)

GetOrder ==
    \E p \in Procs, u \in DOMAIN users, o \in DOMAIN orders \cup {0} :
        NoTaskPending /\ get_order(p, u, o)

RunBackgroundTask == \E p \in Procs, delivered \in BOOLEAN : run_background_task(p, delivered)

NextOrders ==
    \/ PlaceOrder \/ PlaceOrderInsertOrder \/ PlaceOrderInsertItems
    \/ ChangeStatus \/ ChangeStatusCommit
    \/ GetMyOrders \/ GetOrder
    \/ RunBackgroundTask

SpecOrders == InitOrders /\ [][NextOrders]_vars

\* ---------------------------------------------------------------------------
\* Properties of the order lifecycle
\* ---------------------------------------------------------------------------
\* The legal-transition table of the specification (section 4.2).
LegalEdges ==
    {<<"pending", "paid">>, <<"pending", "cancelled">>, <<"paid", "preparing">>,
     <<"paid", "cancelled">>, <<"preparing", "ready">>, <<"ready", "completed">>}

C2_EveryChangeIsLegalEdge ==
    [][\A o \in DOMAIN orders :
          orders'[o].status # orders[o].status
          => <<orders[o].status, orders'[o].status>> \in LegalEdges]_vars

\* C3: a handler commits a status only while the order still has the status
\* the handler read and validated (read-validate-write is serialized per
\* order), so two requests never both succeed from one PENDING read.
C3_SerializedPerOrder ==
    [][\A p \in Procs :
          (/\ update_order_status_commit(p) \/ stripe_webhook_commit(p)
           /\ procs[p].set_status # None)
          => orders[procs[p].order_id].status = procs[p].read_status]_vars

\* C4: a verified "payment succeeded" event for an order that is not PENDING
\* is acknowledged with 200 and changes nothing; one that read the order
\* PENDING leaves it PAID and is acknowledged with 200; no webhook step takes
\* a PAID order out of PAID, and no order ever returns to PENDING, so the
\* deliveries after the first are no-ops.
C4_PaymentEventIdempotent ==
    [][\A p \in Procs, o \in DOMAIN orders :
          /\ (procs'[p] # procs[p] /\ procs'[p].op = "stripe_webhook")
             => /\ (/\ orders[o].status # "pending"
                    /\ stripe_webhook_read(p, "valid", "checkout.session.completed",
                                           TRUE, o))
                   => /\ procs'[p].pc = "done"
                      /\ procs'[p].result = "200"
                      /\ orders' = orders
                /\ (stripe_webhook_commit(p) /\ procs[p].order_id = o)
                   => /\ procs[p].read_status = "pending"
                      /\ orders'[o].status = "paid"
                      /\ procs'[p].result = "200"
                /\ orders[o].status = "paid" => orders'[o].status = "paid"
          /\ orders'[o].status = "pending" => orders[o].status = "pending"]_vars

\* A delivery of the event found the order PAID already, changed nothing and
\* was acknowledged with 200.
C4_Witness ==
    \E q \in Procs :
        /\ procs[q].op = "stripe_webhook" /\ procs[q].pc = "done" /\ ~procs[q].wrote
        /\ procs[q].result = "200"
        /\ procs[q].order_id \in DOMAIN orders
        /\ orders[procs[q].order_id] = [PlacedOrder EXCEPT !.status = "paid"]

\* C13: a payment event without a signature header, with a signature that does
\* not verify or with a malformed payload is answered 400 in one step that
\* has looked up no order, committed nothing and left every table as it was,
\* whatever the event says about an order.
C13_UnverifiedEventRejected ==
    [][\A p \in Procs :
          (procs'[p] # procs[p] /\ procs'[p].op = "stripe_webhook") =>
             \A sig \in Signatures \ {"valid"}, o \in DOMAIN orders :
                 stripe_webhook_read(p, sig, "checkout.session.completed", TRUE, o)
                 => /\ procs'[p].pc = "done"
                    /\ procs'[p].result = "400"
                    /\ procs'[p].order_id = 0
                    /\ procs'[p].read_status = None
                    /\ ~procs'[p].wrote
                    /\ orders' = orders
                    /\ items' = items]_vars

\* An event was rejected while the order it names was PENDING, and the order
\* is PENDING still.
C13_Witness ==
    \E p \in Procs :
        /\ procs[p].op = "stripe_webhook" /\ procs[p].pc = "done"
        /\ procs[p].result = "400"
        /\ \A q \in Procs : procs[q].op \in {"stripe_webhook", "none"}
        /\ orders[1] = PlacedOrder

\* C14: a step of the webhook handler either leaves every table as it was or
\* changes exactly the status of the order its event names from PENDING to
\* PAID; every verified event is acknowledged with 200.
C14_WebhookOnlyMarksPendingPaid ==
    [][\A p \in Procs :
          (procs'[p] # procs[p] /\ procs'[p].op = "stripe_webhook") =>
             /\ items' = items
             /\ \/ orders' = orders
                \/ /\ procs[p].pc = "commit"
                   /\ orders[procs[p].order_id].status = "pending"
                   /\ orders' = [orders EXCEPT ![procs[p].order_id].status = "paid"]
             /\ (procs'[p].pc = "done" /\ procs'[p].result # "400")
                   => procs'[p].result = "200"]_vars

\* C20: once an order is COMPLETED or CANCELLED no step changes its status.
C20_TerminalStatusNeverChanges ==
    [][\A o \in DOMAIN orders :
          orders[o].status \in {"completed", "cancelled"}
          => orders'[o].status = orders[o].status]_vars

\* C21: an order that is PREPARING, READY or COMPLETED (it has reached
\* PREPARING) is not CANCELLED by any step.
C21_NoCancelAfterPreparing ==
    [][\A o \in DOMAIN orders :
          orders[o].status \in {"preparing", "ready", "completed"}
          => orders'[o].status # "cancelled"]_vars

\* C22: create_checkout_session answers 200 only to the order's customer for
\* an order that is PENDING; it answers 403 to every other principal and 400
\* to the customer when the order is not PENDING; and whatever it answers,
\* the step leaves every order and item as it was.
C22_CheckoutOnlyOwnPendingOrder ==
    [][\A p \in Procs :
          (procs'[p] # procs[p] /\ procs'[p].op = "create_checkout_session") =>
             LET u == procs'[p].user
                 o == procs'[p].order_id IN
             /\ orders' = orders
             /\ items' = items
             /\ o \in DOMAIN orders =>
                   /\ procs'[p].result = "200"
                         => orders[o].customer_id = u /\ orders[o].status = "pending"
                   /\ orders[o].customer_id # u => procs'[p].result = "403"
                   /\ (orders[o].customer_id = u /\ orders[o].status # "pending")
                         => procs'[p].result = "400"]_vars

\* The customer was refused a checkout for the order once it was paid, and the
\* order is as it was.
C22_Witness ==
    \E p \in Procs :
        /\ procs[p].op = "create_checkout_session"
        /\ procs[p].user = "alice" /\ procs[p].order_id = 1
        /\ procs[p].result = "400"
        /\ orders[1] = [PlacedOrder EXCEPT !.status = "paid"]

\* C30: a step of update_order_status changes the status of an order only when
\* the request's principal holds a membership of the order's restaurant, or
\* is the order's customer and the new status is CANCELLED.
C30_StatusChangedOnlyByStaffOrOwnCancel ==
    [][\A p \in Procs :
          (/\ procs[p].op = "update_order_status"
           /\ procs[p].pc = "commit"
           /\ procs'[p].pc = "done"
           /\ orders'[procs[p].order_id].status # orders[procs[p].order_id].status)
          => LET u == procs[p].user
                 o == procs[p].order_id IN
             \/ membership_of(u, orders[o].restaurant_id) # {}
             \/ orders[o].customer_id = u /\ orders'[o].status = "cancelled"]_vars
\* ---------------------------------------------------------------------------
\* Properties of order creation
\* ---------------------------------------------------------------------------
\* The sum of the subtotals of the first n rows of an item list.
RECURSIVE SumSubtotals(_, _)
SumSubtotals(rows, n) ==
    IF n = 0 THEN 0 ELSE SumSubtotals(rows, n - 1) + rows[n].subtotal

\* C5: when create_order passes its checks, each item it builds has the price
\* the recipe has at that moment as unit_price and unit_price x quantity as
\* subtotal, and the total is the sum of the subtotals; the commits persist
\* exactly that total and those items; and no later step of any handler
\* (menu edits included) changes the total of a persisted order or the items
\* of an order whose items are persisted.
C5_PricedAtCreation ==
    /\ [][\A p \in Procs :
            /\ (/\ procs'[p] # procs[p]
                /\ procs'[p].op = "create_order"
                /\ procs'[p].pc = "insert_order")
               => LET d == procs'[p].draft IN
                  /\ d.order_items # <<>>
                  /\ \A i \in 1..Len(d.order_items) :
                        /\ d.order_items[i].unit_price
                             = recipes[d.order_items[i].recipe_id].price
                        /\ d.order_items[i].subtotal
                             = d.order_items[i].unit_price * d.order_items[i].quantity
                  /\ d.total_amount = SumSubtotals(d.order_items, Len(d.order_items))
            /\ (/\ procs[p].op = "create_order"
                /\ procs[p].pc = "insert_order"
                /\ procs'[p].pc = "insert_items")
               => /\ procs'[p].draft = procs[p].draft
                  /\ orders'[procs'[p].order_id].total_amount = procs[p].draft.total_amount
            /\ (/\ procs[p].op = "create_order"
                /\ procs[p].pc = "insert_items"
                /\ procs'[p].pc = "done")
               => /\ procs'[p].result = "201"
                  /\ items'[procs[p].order_id] = procs[p].draft.order_items]_vars
    /\ [][\A o \in DOMAIN orders :
            /\ orders'[o].total_amount = orders[o].total_amount
            /\ items[o] # <<>> => items'[o] = items[o]]_vars

\* An order of 1 x r1 and 3 x r2 was created and priced (12.99 + 3 x 8.50), and
\* recipe r2 has been edited since (it was moved to restaurant Y).
C5_Witness ==
    \E o \in DOMAIN orders :
        /\ Len(items[o]) = 2
        /\ items[o][2].unit_price = 850 /\ items[o][2].subtotal = 2550
        /\ orders[o].total_amount = 3849
        /\ recipes["r2"].restaurant_id = "Y"
        /\ \E p \in Procs : procs[p].op = "create_order" /\ procs[p].result = "201"

\* C6: in every committed state, a persisted order's total_amount is the sum
\* of the subtotals of its persisted items.
C6_TotalMatchesPersistedItems ==
    \A o \in DOMAIN orders :
        orders[o].total_amount = SumSubtotals(items[o], Len(items[o]))
\* ---------------------------------------------------------------------------
\* Properties of access control
\* ---------------------------------------------------------------------------
\* The persisted state.
db == <<users, memberships, restaurants, recipes, orders, items>>

Success == {"200", "201", "204"}

\* C7: a request made by a principal whose system role is SUSPENDED when the
\* request is served never succeeds, whatever memberships the principal holds.
C7_SuspendedDeniedEverything ==
    [][\A p \in Procs :
          (/\ procs'[p] # procs[p]
           /\ procs'[p].user # None
           /\ users[procs'[p].user] = "suspended")
          => procs'[p].result \notin Success]_vars

\* The handlers behind require_manage_restaurant_access.
ManageOps ==
    {"update_restaurant", "delete_restaurant", "get_memberships", "add_member",
     "update_membership", "remove_member", "invite_staff"}

\* u is not a superadmin and its only membership is RESTAURANT_ADMIN of x.
OnlyAdminOf(u, x) ==
    /\ users[u] # "superadmin"
    /\ {m \in memberships : m.user_id = u} = {Membership(u, x, "restaurant_admin")}

\* C8: in every reachable state, a non-superadmin whose only membership is
\* RESTAURANT_ADMIN of X passes the manage-restaurant dependency for X and
\* fails it for every other restaurant Y; and every manage-restaurant request
\* such a principal makes is answered 403 and changes nothing when it names
\* Y, and is not answered 403 when it names X.
C8_NoCrossTenantManage ==
    /\ [](\A u \in DOMAIN users, x \in RestaurantIds, y \in RestaurantIds :
            (x # y /\ OnlyAdminOf(u, x))
            => /\ require_manage_restaurant_access(u, x)
               /\ ~require_manage_restaurant_access(u, y))
    /\ [][\A p \in Procs :
            (procs'[p] # procs[p] /\ procs'[p].op \in ManageOps)
            => \A x \in RestaurantIds :
                  OnlyAdminOf(procs'[p].user, x)
                  => IF procs'[p].restaurant_id = x
                     THEN procs'[p].result # "403"
                     ELSE procs'[p].result = "403" /\ db' = db]_vars

\* alice is RESTAURANT_ADMIN of X only; bob has a membership in Y; alice asked
\* to remove a member of Y and was refused.
C8_Witness ==
    \E p \in Procs :
        /\ procs[p].op = "remove_member"
        /\ procs[p].user = "alice"
        /\ procs[p].restaurant_id = "Y"
        /\ procs[p].result = "403"
        /\ OnlyAdminOf("alice", "X")
        /\ membership_of("bob", "Y") # {}

\* The capability table of the specification.
Capabilities == {"create_restaurant", "manage_restaurant", "edit_menu", "read_restaurant"}

CapabilityTable ==
    [c \in Capabilities |->
        CASE c = "create_restaurant" -> [system |-> {"superadmin"}, org |-> {}]
          [] c = "manage_restaurant" ->
                [system |-> {"superadmin"}, org |-> {"restaurant_admin"}]
          [] c = "edit_menu" ->
                [system |-> {"superadmin"}, org |-> {"restaurant_admin", "employee"}]
          [] c = "read_restaurant" ->
                [system |-> {"superadmin"}, org |-> {"restaurant_admin", "employee"}]]

\* The algorithm of the specification; membership_role is None when the
\* principal has no membership in the requested restaurant.
TableDecision(c, system_role, membership_role) ==
    IF system_role \in CapabilityTable[c].system THEN TRUE
    ELSE membership_role \in CapabilityTable[c].org

MembershipRole(u, restaurant_id) ==
    IF \E m \in memberships : m.user_id = u /\ m.restaurant_id = restaurant_id
    THEN (CHOOSE m \in memberships : m.user_id = u /\ m.restaurant_id = restaurant_id).role
    ELSE None

\* What the code decides for a capability.
access_decision(c, u, restaurant_id) ==
    CASE c = "create_restaurant" -> require_restaurant_creation_access(u)
      [] c = "manage_restaurant" -> require_manage_restaurant_access(u, restaurant_id)
      [] c = "edit_menu" -> require_edit_menu_access(u, restaurant_id)
      [] c = "read_restaurant" -> require_read_restaurant_access(u, restaurant_id)

\* The capability each handler asks for.
EndpointCapability(op) ==
    CASE op \in ManageOps -> "manage_restaurant"
      [] op = "update_recipe" -> "edit_menu"
      [] op = "get_restaurant" -> "read_restaurant"
      [] op = "get_restaurants" -> "create_restaurant"

GuardedOps == ManageOps \cup {"update_recipe", "get_restaurant", "get_restaurants"}

\* C9: in every reachable state, for every principal, restaurant and
\* capability, the code's access decision equals the capability table applied
\* to the principal's system role and its membership in that restaurant; every
\* guarded handler answers 403 exactly when the table denies; a denied request
\* changes no persisted state.
C9_DecisionEqualsTable ==
    /\ [](\A u \in DOMAIN users, r \in RestaurantIds, c \in Capabilities :
            access_decision(c, u, r) = TableDecision(c, users[u], MembershipRole(u, r)))
    /\ [][\A p \in Procs :
            (procs'[p] # procs[p] /\ procs'[p].op \in GuardedOps)
            => /\ (procs'[p].result = "403")
                  = ~TableDecision(EndpointCapability(procs'[p].op), users[procs'[p].user],
                                   MembershipRole(procs'[p].user, procs'[p].restaurant_id))
               /\ procs'[p].result = "403" => db' = db]_vars

\* Every kind of principal has been decided on: a suspended RESTAURANT_ADMIN
\* and an EMPLOYEE exist next to the superadmin, and the employee was just
\* allowed to edit the menu of its restaurant.
C9_Witness ==
    \E p \in Procs :
        /\ procs[p].op = "update_recipe"
        /\ procs[p].result = "200"
        /\ users[procs[p].user] = "customer"
        /\ MembershipRole(procs[p].user, procs[p].restaurant_id) = "employee"
        /\ \E u \in DOMAIN users :
              users[u] = "suspended" /\ MembershipRole(u, "X") = "restaurant_admin"
\* ---------------------------------------------------------------------------
\* Properties of registration
\* ---------------------------------------------------------------------------
\* C10: no step creates a user row whose system role is SUPERADMIN.
C10_NoSuperadminByRegistration ==
    [][\A u \in UserIds :
          (u \notin DOMAIN users /\ u \in DOMAIN users') => users'[u] # "superadmin"]_vars

\* ---------------------------------------------------------------------------
\* Properties of restaurant approval and of memberships
\* ---------------------------------------------------------------------------
\* C11: a restaurant row is created PENDING, and every step that changes the
\* approval_status of a restaurant is the step of a request whose principal
\* is a SUPERADMIN.
C11_ApprovalChangedOnlyBySuperadmin ==
    [][\A r \in DOMAIN restaurants' :
          /\ r \notin DOMAIN restaurants => restaurants'[r] = "pending"
          /\ (r \in DOMAIN restaurants /\ restaurants'[r] # restaurants[r]) =>
                \E p \in Procs :
                    /\ FirstFree(p)
                    /\ procs'[p].user \in DOMAIN users
                    /\ users[procs'[p].user] = "superadmin"]_vars

\* C12: every step that adds a membership row is the step of a restaurant-owner
\* registration (the ADMIN membership of the restaurant it creates), of
\* add_member by a principal with the manage capability on the membership's
\* restaurant, or of the acceptance of an invitation by the invited user.
C12_MembershipCreatedOnlyByThreeOperations ==
    [][\A m \in memberships' :
          membership_of(m.user_id, m.restaurant_id) = {} =>
          \E p \in Procs :
              /\ FirstFree(p)
              /\ \/ /\ procs'[p].op = "register_restaurant_owner"
                    /\ m.restaurant_id \notin DOMAIN restaurants
                    /\ m = Membership(procs'[p].user, m.restaurant_id, "restaurant_admin")
                 \/ /\ procs'[p].op = "add_member"
                    /\ require_manage_restaurant_access(procs'[p].user, m.restaurant_id)
                 \/ /\ procs'[p].op = "accept_invitation"
                    /\ m.user_id = procs'[p].user]_vars

WellFormed == {item_list \in ItemLists :
                  \A i \in 1..Len(item_list) : item_list[i].quantity >= 1}

\* C16: create_order decides 403 for every well-formed request of a principal
\* whose system role is not CUSTOMER, whatever restaurant and recipes it
\* names; the step that answers 403 adds no order and no item and queues no
\* notification.
C16_NonCustomerForbidden ==
    /\ [](\A u \in DOMAIN users, r \in RestaurantIds \cup {"Z"}, item_list \in WellFormed :
             users[u] # "customer" => create_order_outcome(u, r, item_list) = "403")
    /\ [][\A p \in Procs :
             (procs'[p] # procs[p] /\ procs'[p].op = "create_order") =>
                /\ \A u \in DOMAIN users :
                      (/\ users[u] # "customer"
                       /\ create_order_read(p, u, "X",
                                            <<[recipe_id |-> "r1", quantity |-> 2]>>, None))
                      => procs'[p].result = "403"
                /\ procs'[p].result = "403"
                      => /\ procs'[p].pc = "done"
                         /\ procs'[p].notify = None
                         /\ orders' = orders
                         /\ items' = items]_vars

\* A request was answered 403 while restaurant X was approved and its menu in
\* place: no order was created and nobody is notified.
C16_Witness ==
    /\ restaurants["X"] = "approved"
    /\ \A r \in RecipeIds : recipes[r].restaurant_id = "X"
    /\ orders = <<>>
    /\ \E p \in Procs :
          /\ procs[p].op = "create_order" /\ procs[p].pc = "done"
          /\ procs[p].result = "403" /\ procs[p].notify = None

\* C17: create_order decides "not found" (404) for every well-formed request
\* of a customer that names a restaurant that does not exist, or an approved
\* restaurant together with at least one recipe id that is no recipe of that
\* restaurant.
C17_UnknownRestaurantOrRecipeNotFound ==
    \A u \in DOMAIN users, r \in RestaurantIds \cup {"Z"}, item_list \in WellFormed :
        (/\ users[u] = "customer"
         /\ \/ r \notin DOMAIN restaurants
            \/ /\ restaurants[r] = "approved"
               /\ \E i \in 1..Len(item_list) :
                     ~recipe_in_restaurant(item_list[i].recipe_id, r))
        => create_order_outcome(u, r, item_list) = "404"

\* The orders whose create_order request has not finished adding the items.
being_created == {procs[p].order_id : p \in {q \in Procs : procs[q].pc = "insert_items"}}

\* C18: create_order decides "invalid request" for a customer's request with
\* an empty item list (400) or with an item whose quantity is below 1 (422),
\* and the step that answers it adds no order and no item; every persisted
\* item has quantity >= 1, and every persisted order whose creation has
\* completed has at least one item.
C18_NoEmptyOrderNoZeroQuantity ==
    /\ [](\A u \in DOMAIN users, item_list \in ItemLists :
             (users[u] = "customer" /\ restaurants["X"] = "approved") =>
                /\ item_list = <<>> => create_order_outcome(u, "X", item_list) = "400"
                /\ (\E i \in 1..Len(item_list) : item_list[i].quantity < 1)
                      => create_order_outcome(u, "X", item_list) = "422")
    /\ [](\A o \in DOMAIN orders :
             /\ \A i \in 1..Len(items[o]) : items[o][i].quantity >= 1
             /\ o \notin being_created => Len(items[o]) >= 1)
    /\ [][\A p \in Procs :
             (procs'[p] # procs[p] /\ procs'[p].op = "create_order") =>
                /\ \A item_list \in {<<>>, <<[recipe_id |-> "r1", quantity |-> 0]>>} :
                      create_order_read(p, "alice", "X", item_list, None)
                      => procs'[p].result \in {"400", "422"}
                /\ procs'[p].result \in {"400", "422"}
                      => /\ procs'[p].pc = "done"
                         /\ orders' = orders
                         /\ items' = items]_vars

\* An order was created with its items, and a later request with an empty
\* item list was refused.
C18_Witness ==
    /\ \E o \in DOMAIN orders : o \notin being_created /\ Len(items[o]) >= 1
    /\ \E p \in Procs :
          /\ procs[p].op = "create_order" /\ procs[p].pc = "done"
          /\ procs[p].detail = "Order must contain at least one item"

\* C19: every order row is inserted by a create_order request, with status
\* PENDING, the request's principal as customer_id and the restaurant the
\* request names as restaurant_id.
C19_CreatedPendingForPrincipal ==
    [][/\ \A p \in Procs :
             (procs'[p] # procs[p] /\ procs'[p].op = "create_order"
                                   /\ procs'[p].pc = "insert_order") =>
                \A u \in DOMAIN users, r \in DOMAIN restaurants, item_list \in WellFormed :
                    (users[u] = "customer" /\ create_order_read(p, u, r, item_list, None))
                    => procs'[p].user = u /\ procs'[p].restaurant_id = r
       /\ \A o \in DOMAIN orders' \ DOMAIN orders :
             \E p \in Procs :
                 /\ procs[p].op = "create_order" /\ procs[p].pc = "insert_order"
                 /\ procs'[p].pc = "insert_items" /\ procs'[p].order_id = o
                 /\ orders'[o].status = "pending"
                 /\ orders'[o].customer_id = procs[p].user
                 /\ orders'[o].restaurant_id = procs[p].restaurant_id
                 /\ users[procs[p].user] = "customer"]_vars

\* alice's request for restaurant X was answered 201 and the order it created
\* is PENDING, hers, and X's.
C19_Witness ==
    /\ \E p \in Procs : procs[p].op = "create_order" /\ procs[p].result = "201"
                                                     /\ procs[p].notify = "X"
    /\ \E o \in DOMAIN orders :
          /\ orders[o].status = "pending"
          /\ orders[o].customer_id = "alice"
          /\ orders[o].restaurant_id = "X"

\* ---------------------------------------------------------------------------
\* Properties of notifications and of reading orders
\* ---------------------------------------------------------------------------
\* C23: the step that queues a notification is the step that returns the
\* response after the commit, and the order the notification reports is in the
\* database as reported at that moment; the task that dispatches it runs after
\* that step, and whether its sends succeed or fail it changes no table and
\* leaves the response of the request the success it was.
C23_NotifiedAfterCommitFailureHarmless ==
    [][\A p \in Procs :
          /\ (/\ procs'[p] # procs[p]
              /\ procs'[p].notify # None
              /\ procs'[p].dispatched = None)
             => LET order_read == procs'[p].payload IN
                /\ procs'[p].pc = "done"
                /\ procs'[p].result \in Success
                /\ order_read.id \in DOMAIN orders'
                /\ order_read = order_to_read_model(order_read.id, orders'[order_read.id],
                                                    items'[order_read.id])
          /\ (procs[p].dispatched = None /\ procs'[p].dispatched # None)
             => /\ task_pending(p)
                /\ procs[p].result \in Success
                /\ procs'[p].result = procs[p].result
                /\ db' = db]_vars

\* The notification of a cancellation could not be delivered: the request was
\* answered 200 and the order is CANCELLED.
C23_Witness ==
    \E p \in Procs :
        /\ procs[p].op = "update_order_status"
        /\ procs[p].dispatched = "failed"
        /\ procs[p].result = "200"
        /\ orders[procs[p].order_id].status = "cancelled"
        /\ procs[p].payload.status = "cancelled"

\* C24: the response of a successful create_order queues one notification for
\* the restaurant of the order, the response of a successful
\* update_order_status queues one for the customer of the order (whoever
\* sent the request), each carrying the order as it is committed; every other
\* response queues none; a queued notification is dispatched once.
C24_OneNotificationPerSuccess ==
    [][\A p \in Procs :
          /\ (/\ procs'[p] # procs[p]
              /\ procs'[p].pc = "done"
              /\ procs'[p].dispatched = None)
             => LET r == procs'[p]
                    id == r.payload.id IN
                IF r.op = "create_order" /\ r.result = "201"
                THEN /\ id \in DOMAIN orders'
                     /\ r.notify = orders'[id].restaurant_id
                     /\ r.payload = order_to_read_model(id, orders'[id], items'[id])
                ELSE IF r.op = "update_order_status" /\ r.result = "200"
                THEN /\ id = r.order_id
                     /\ r.notify = orders'[id].customer_id
                     /\ r.payload = order_to_read_model(id, orders'[id], items'[id])
                ELSE r.notify = None /\ r.payload = NoOrderRead
          /\ procs[p].dispatched # None
             => procs'[p] = procs[p] \/ procs'[p].dispatched = None]_vars

\* dave cancelled alice's order: the notification went to alice, once.
C24_Witness ==
    \E p \in Procs :
        /\ procs[p].op = "update_order_status"
        /\ procs[p].result = "200"
        /\ procs[p].user = "dave"
        /\ procs[p].notify = "alice"
        /\ procs[p].dispatched = "sent"
        /\ procs[p].payload.status = "cancelled"
        /\ procs[p].payload.customer_id = "alice"

\* C28: a listing of the principal's own orders answers a CUSTOMER with
\* exactly the orders whose customer_id is the principal, whoever placed the
\* others, and answers any other principal 403 with nothing; an order in a
\* listing is never another customer's.
C28_MyOrdersAreExactlyMine ==
    /\ [](\A p \in Procs :
            procs[p].op = "get_my_orders"
            => \A o \in procs[p].returned :
                  o \in DOMAIN orders /\ orders[o].customer_id = procs[p].user)
    /\ [][\A p \in Procs :
            (procs'[p] # procs[p] /\ procs'[p].op = "get_my_orders")
            => LET r == procs'[p] IN
               /\ db' = db
               /\ IF users[r.user] = "customer"
                  THEN /\ r.result = "200"
                       /\ r.returned = {o \in DOMAIN orders : orders[o].customer_id = r.user}
                  ELSE r.result = "403" /\ r.returned = {}]_vars

\* alice and bob have both placed orders and alice's listing holds hers only.
C28_Witness ==
    \E p \in Procs :
        /\ procs[p].op = "get_my_orders"
        /\ procs[p].user = "alice"
        /\ procs[p].result = "200"
        /\ procs[p].returned # {}
        /\ procs[p].returned = {o \in DOMAIN orders : orders[o].customer_id = "alice"}
        /\ \E o \in DOMAIN orders : orders[o].customer_id = "bob"

\* C29: an order is returned by get_order only to the customer who placed it
\* or to a member of the staff of the order's restaurant; every other
\* principal is refused.
C29_OrderReadOnlyByOwnerOrStaff ==
    \A p \in Procs :
        (procs[p].op = "get_order" /\ procs[p].result = "200")
        => \A o \in procs[p].returned :
              \/ orders[o].customer_id = procs[p].user
              \/ \E m \in memberships :
                    m.user_id = procs[p].user /\ m.restaurant_id = orders[o].restaurant_id

\* ---------------------------------------------------------------------------
\* Memberships under concurrent requests (routes/restaurant_routes.py,
\* models/membership.py).  add_member and accept_invitation select the
\* membership of the pair and insert later, in the same request; here the two
\* statements are two steps, so that other requests run between them
\* (add_member and accept_invitation above are the same handlers served with
\* nothing in between).
\* ---------------------------------------------------------------------------
\* UniqueConstraint("user_id", "restaurant_id", name="uix_user_restaurant"):
\* TRUE when the table accepts the row.
uix_user_restaurant_dropped(m) == TRUE

uix_user_restaurant(m) == membership_of(m.user_id, m.restaurant_id) = {}

\* The response of a membership handler: the Membership of the request is kept
\* with the status code and the detail.
MemberResponse(p, op, u, m, result, detail) ==
    [RespondTo(p, op, u, m.restaurant_id, result)
        EXCEPT ![p].member = m.user_id, ![p].org_role = m.role, ![p].detail = detail]

\* add_member up to its check for an existing membership.
add_member_select(p, u, restaurant_id, email, role) ==
    /\ FirstFree(p)
    /\ LET m == Membership(email, restaurant_id, role) IN
       procs' =
         IF ~require_manage_restaurant_access(u, restaurant_id)
         THEN MemberResponse(p, "add_member", u, m, "403", None)
         ELSE IF email \notin DOMAIN users
         THEN MemberResponse(p, "add_member", u, m, "404", "User not found with this email")
         ELSE IF membership_of(email, restaurant_id) # {}
         THEN MemberResponse(p, "add_member", u, m, "400",
                             "User is already a member of this restaurant")
         ELSE [MemberResponse(p, "add_member", u, m, "none", None) EXCEPT ![p].pc = "commit"]
    /\ UNCHANGED <<users, memberships, restaurants, recipes, orders, items, channel>>

\* session.add(membership); session.commit(): the insert raises IntegrityError
\* (an unhandled exception, 500) when the row breaks the unique constraint or
\* the foreign key.
add_member_commit(p) ==
    /\ procs[p].op = "add_member"
    /\ procs[p].pc = "commit"
    /\ LET m == Membership(procs[p].member, procs[p].restaurant_id, procs[p].org_role) IN
       IF m.restaurant_id \in DOMAIN restaurants /\ uix_user_restaurant(m)
       THEN /\ memberships' = memberships \cup {m}
            /\ procs' = MemberResponse(p, "add_member", procs[p].user, m, "201", None)
       ELSE /\ UNCHANGED memberships
            /\ procs' = MemberResponse(p, "add_member", procs[p].user, m, "500",
                                       "IntegrityError")
    /\ UNCHANGED <<users, restaurants, recipes, orders, items, channel>>

\* The invitation is for the logged-in user: the emails are equal.
invitation_is_for_anyone(u, token) == TRUE

invitation_is_for(u, token) == u = token.email

\* accept_invitation up to its check for an existing membership.
accept_invitation_select(p, u, verifies, token) ==
    /\ FirstFree(p)
    /\ LET m == Membership(u, token.restaurant_id, token.role) IN
       procs' =
         IF ~verifies
         THEN MemberResponse(p, "accept_invitation", u, m, "400",
                             "Invalid or expired invitation token")
         ELSE IF ~invitation_is_for(u, token)
         THEN MemberResponse(p, "accept_invitation", u, m, "403",
                             "This invitation was sent to a different email address")
         ELSE IF token.restaurant_id \notin DOMAIN restaurants
         THEN MemberResponse(p, "accept_invitation", u, m, "404", "Restaurant not found")
         ELSE IF membership_of(u, token.restaurant_id) # {}
         THEN MemberResponse(p, "accept_invitation", u, m, "400",
                             "You are already a member of this restaurant")
         ELSE [MemberResponse(p, "accept_invitation", u, m, "none", None)
                  EXCEPT ![p].pc = "commit"]
    /\ UNCHANGED <<users, memberships, restaurants, recipes, orders, items, channel>>

accept_invitation_commit(p) ==
    /\ procs[p].op = "accept_invitation"
    /\ procs[p].pc = "commit"
    /\ LET m == Membership(procs[p].member, procs[p].restaurant_id, procs[p].org_role) IN
       IF m.restaurant_id \in DOMAIN restaurants /\ uix_user_restaurant(m)
       THEN /\ memberships' = memberships \cup {m}
            /\ procs' = MemberResponse(p, "accept_invitation", procs[p].user, m, "200", None)
       ELSE /\ UNCHANGED memberships
            /\ procs' = MemberResponse(p, "accept_invitation", procs[p].user, m, "500",
                                       "IntegrityError")
    /\ UNCHANGED <<users, restaurants, recipes, orders, items, channel>>

\* alice runs restaurant X; bob has an account; carol has none yet; r1 is on
\* the menu of X and r2 on the menu of Y.
InitMembers ==
    /\ InitManager
    /\ users = [u \in UserIds |-> CASE u = "root" -> "superadmin"
                                    [] u = "alice" -> "restaurant_owner"
                                    [] OTHER -> "customer"]
    /\ memberships = {Membership("alice", "X", "restaurant_admin")}
    /\ restaurants = [r \in RestaurantIds |-> "approved"]
    /\ recipes = [r \in RecipeIds |->
                    IF r = "r1" THEN [restaurant_id |-> "X", price |-> 1299]
                    ELSE [restaurant_id |-> "Y", price |-> 850]]
    /\ orders = <<>>
    /\ items = <<>>
    /\ procs = [p \in Procs |-> Idle]

\* alice adds bob or carol to the staff of X.
AddMemberSelect ==
    \E p \in Procs, email \in {"bob", "carol"}, role \in OrgRole :
        add_member_select(p, "alice", "X", email, role)

AddMemberCommit == \E p \in Procs : add_member_commit(p)

\* The invitations sent to bob for X, presented by bob and by alice.
AcceptInvitationSelect ==
    \E p \in Procs, u \in {"alice", "bob"}, role \in OrgRole :
        accept_invitation_select(p, u, TRUE,
                                 [email |-> "bob", restaurant_id |-> "X", role |-> role])

AcceptInvitationCommit == \E p \in Procs : accept_invitation_commit(p)

ChangeRole ==
    \E p \in Procs, m \in memberships, role \in OrgRole :
        update_membership(p, "alice", "X", m.user_id, m.restaurant_id, role)

RemoveFromStaff ==
    \E p \in Procs, u \in {"alice", "root"}, m \in memberships :
        remove_member(p, u, "X", m.user_id, m.restaurant_id)

\* carol registers as a member of the staff of X.
RegisterStaff ==
    \E p \in Procs, org_role \in OrgRole : register_user(p, "carol", None, org_role, "X")

\* The superadmin deletes a restaurant.
CloseRestaurant ==
    \E p \in Procs, r \in RestaurantIds : delete_restaurant(p, "root", r)

NextMembers ==
    \/ AddMemberSelect \/ AddMemberCommit
    \/ AcceptInvitationSelect \/ AcceptInvitationCommit
    \/ ChangeRole \/ RemoveFromStaff \/ RegisterStaff \/ CloseRestaurant

SpecMembers == InitMembers /\ [][NextMembers]_vars

\* ---------------------------------------------------------------------------
\* Properties of memberships
\* ---------------------------------------------------------------------------
\* C25: no two memberships have the same (user_id, restaurant_id), whatever
\* add_member, accept_invitation, update_membership and registration requests
\* run and however their steps interleave; a request of add_member or
\* accept_invitation answered while the pair has a membership is not a
\* success and leaves the memberships, roles included, as they were.
C25_OneMembershipPerPair ==
    /\ [](\A m1, m2 \in memberships :
            (m1.user_id = m2.user_id /\ m1.restaurant_id = m2.restaurant_id) => m1 = m2)
    /\ [][\A p \in Procs :
            (/\ procs'[p] # procs[p]
             /\ procs'[p].op \in {"add_member", "accept_invitation"}
             /\ procs'[p].pc = "done"
             /\ membership_of(procs'[p].member, procs'[p].restaurant_id) # {})
            => /\ procs'[p].result \notin Success
               /\ memberships' = memberships]_vars

\* Two requests passed the check for bob and X; the insert of the second one
\* failed and bob keeps the role the first one gave.
C25_Witness ==
    \E p \in Procs :
        /\ procs[p].op \in {"add_member", "accept_invitation"}
        /\ procs[p].result = "500"
        /\ procs[p].member = "bob"
        /\ procs[p].org_role = "restaurant_admin"
        /\ membership_of("bob", "X") = {Membership("bob", "X", "employee")}

\* The rejection of a duplicate membership.
Conflict(r) ==
    r.result = "400" /\ r.detail = "You are already a member of this restaurant"

C27_NeverRemovesOwnMembership ==
    [][\A p \in Procs :
          (procs'[p] # procs[p] /\ procs'[p].op = "remove_member")
          => \A u \in DOMAIN users, m \in memberships :
                remove_member(p, u, procs'[p].restaurant_id, m.user_id, m.restaurant_id)
                => IF procs'[p].result = "204"
                   THEN /\ m.user_id # u
                        /\ m.restaurant_id = procs'[p].restaurant_id
                        /\ memberships' = memberships \ {m}
                   ELSE /\ memberships' = memberships
                        /\ m.user_id = u => procs'[p].result \in {"400", "403", "404"}]_vars

\* alice asked to be removed from X: refused, and alice is still its admin.
C27_Witness ==
    \E p \in Procs :
        /\ procs[p].op = "remove_member"
        /\ procs[p].user = "alice"
        /\ procs[p].restaurant_id = "X"
        /\ procs[p].result = "400"
        /\ Membership("alice", "X", "restaurant_admin") \in memberships

\* ---------------------------------------------------------------------------
\* Registration under concurrent requests (routes/auth_routes.py,
\* models/user.py).  A user row is the pair <<username, email>> here, so that
\* two rows can share one of the two; the handlers select by username and by
\* email and insert in later statements, which are separate steps.
\* ---------------------------------------------------------------------------
Usernames == {"alice", "bob"}
Emails == {"a@example.com", "b@example.com"}

username_taken(username) == \E k \in DOMAIN users : k[1] = username

email_taken(email) == \E k \in DOMAIN users : k[2] = email

\* username and email are Field(unique=True): TRUE when the table accepts the row.
user_unique_dropped(username, email) == TRUE

user_unique(username, email) == ~username_taken(username) /\ ~email_taken(email)

Registering(p, op, username, email, org_role, restaurant_id, pc) ==
    [Latest EXCEPT ![p] = [Idle EXCEPT !.op = op, !.pc = pc, !.user = username,
                                      !.email = email, !.org_role = org_role,
                                      !.restaurant_id = restaurant_id]]

Registered(p, op, result, detail) ==
    [Latest EXCEPT ![p] = [procs[p] EXCEPT !.op = op, !.pc = "done", !.result = result,
                                          !.detail = detail]]

\* The two selects of both registration handlers.
registration_select(p, op, username, email, org_role, restaurant_id) ==
    /\ FirstFree(p)
    /\ procs' =
         IF username_taken(username)
         THEN [Registering(p, op, username, email, org_role, restaurant_id, "done")
                  EXCEPT ![p].result = "400", ![p].detail = "Username already registered"]
         ELSE IF email_taken(email)
         THEN [Registering(p, op, username, email, org_role, restaurant_id, "done")
                  EXCEPT ![p].result = "400", ![p].detail = "Email already registered"]
         ELSE Registering(p, op, username, email, org_role, restaurant_id, "insert_user")
    /\ UNCHANGED <<users, memberships, restaurants, recipes, orders, items, channel>>

\* session.add(db_user); session.commit(): IntegrityError (500) when a unique
\* column is taken by now.
registration_insert_user(p, op, role, next) ==
    /\ procs[p].op = op
    /\ procs[p].pc = "insert_user"
    /\ IF user_unique(procs[p].user, procs[p].email)
       THEN /\ users' = users @@ (<<procs[p].user, procs[p].email>> :> role)
            /\ procs' = IF next = "done" THEN Registered(p, op, "201", None)
                        ELSE [procs EXCEPT ![p].pc = next]
       ELSE /\ UNCHANGED users
            /\ procs' = Registered(p, op, "500", "IntegrityError")
    /\ UNCHANGED <<memberships, restaurants, recipes, orders, items, channel>>

register_user_select(p, username, email, org_role, restaurant_id) ==
    registration_select(p, "register_user", username, email, org_role, restaurant_id)

register_user_insert_user(p) ==
    registration_insert_user(p, "register_user", "customer",
                             IF procs[p].org_role # None /\ procs[p].restaurant_id # None
                             THEN "insert_membership" ELSE "done")

register_user_insert_membership(p) ==
    /\ procs[p].op = "register_user"
    /\ procs[p].pc = "insert_membership"
    /\ LET m == Membership(<<procs[p].user, procs[p].email>>, procs[p].restaurant_id,
                           procs[p].org_role) IN
       IF m.restaurant_id \in DOMAIN restaurants /\ uix_user_restaurant(m)
       THEN /\ memberships' = memberships \cup {m}
            /\ procs' = Registered(p, "register_user", "201", None)
       ELSE /\ UNCHANGED memberships
            /\ procs' = Registered(p, "register_user", "500", "IntegrityError")
    /\ UNCHANGED <<users, restaurants, recipes, orders, items, channel>>

register_restaurant_owner_select(p, username, email) ==
    registration_select(p, "register_restaurant_owner", username, email, None, None)

register_restaurant_owner_insert_user(p) ==
    registration_insert_user(p, "register_restaurant_owner", "restaurant_owner",
                             "insert_restaurant")

register_restaurant_owner_insert_restaurant(p) ==
    /\ procs[p].op = "register_restaurant_owner"
    /\ procs[p].pc = "insert_restaurant"
    /\ restaurants' = restaurants @@ (next_restaurant_id :> "pending")
    /\ procs' = [procs EXCEPT ![p].pc = "insert_membership",
                              ![p].restaurant_id = next_restaurant_id]
    /\ UNCHANGED <<users, memberships, recipes, orders, items, channel>>

register_restaurant_owner_insert_membership(p) ==
    /\ procs[p].op = "register_restaurant_owner"
    /\ procs[p].pc = "insert_membership"
    /\ memberships' = memberships
          \cup {Membership(<<procs[p].user, procs[p].email>>, procs[p].restaurant_id,
                           "restaurant_admin")}
    /\ procs' = Registered(p, "register_restaurant_owner", "201", None)
    /\ UNCHANGED <<users, restaurants, recipes, orders, items, channel>>

\* Only the seeded superadmin exists; restaurant X is open.
InitSignup ==
    /\ InitManager
    /\ users = (<<"root", "root@example.com">> :> "superadmin")
    /\ memberships = {}
    /\ restaurants = [r \in {"X"} |-> "approved"]
    /\ recipes = [r \in RecipeIds |->
                    [restaurant_id |-> "X", price |-> IF r = "r1" THEN 1299 ELSE 850]]
    /\ orders = <<>>
    /\ items = <<>>
    /\ procs = [p \in Procs |-> Idle]

\* A customer registers, with or without a place on the staff of X.
RegisterUserSelect ==
    \E p \in Procs, username \in Usernames, email \in Emails, org_role \in {None, "employee"} :
        register_user_select(p, username, email, org_role,
                             IF org_role = None THEN None ELSE "X")

RegisterUserInsertUser == \E p \in Procs : register_user_insert_user(p)

RegisterUserInsertMembership == \E p \in Procs : register_user_insert_membership(p)

\* bob registers a restaurant, under either email.
RegisterRestaurantOwnerSelect ==
    \E p \in Procs, email \in Emails : register_restaurant_owner_select(p, "bob", email)

RegisterRestaurantOwnerInsertUser ==
    \E p \in Procs : register_restaurant_owner_insert_user(p)

RegisterRestaurantOwnerInsertRestaurant ==
    \E p \in Procs : register_restaurant_owner_insert_restaurant(p)

RegisterRestaurantOwnerInsertMembership ==
    \E p \in Procs : register_restaurant_owner_insert_membership(p)

NextSignup ==
    \/ RegisterUserSelect \/ RegisterUserInsertUser \/ RegisterUserInsertMembership
    \/ RegisterRestaurantOwnerSelect \/ RegisterRestaurantOwnerInsertUser
    \/ RegisterRestaurantOwnerInsertRestaurant \/ RegisterRestaurantOwnerInsertMembership

SpecSignup == InitSignup /\ [][NextSignup]_vars

Prices == {1, 5, 99, 850, 1299, 1999}
Quantities == {1, 2, 3}

\* alice's order holds one item of r1 at one of the prices; the total is the
\* sum create_order computed.
InitCheckout ==
    /\ InitManager
    /\ users = [u \in UserIds |-> IF u = "root" THEN "superadmin" ELSE "customer"]
    /\ memberships = {}
    /\ restaurants = [r \in RestaurantIds |-> "approved"]
    /\ \E price \in Prices, quantity \in Quantities :
          /\ recipes = [r \in RecipeIds |-> [restaurant_id |-> "X", price |-> price]]
          /\ items = [o \in {1} |->
                        <<[recipe_id |-> "r1", quantity |-> quantity, unit_price |-> price,
                           subtotal |-> price * quantity, notes |-> None]>>]
          /\ orders = [o \in {1} |-> [PlacedOrder EXCEPT !.total_amount = price * quantity]]
    /\ procs = [p \in Procs |-> Idle]

\* The payment of the order is confirmed by a verified event.
ConfirmPayment ==
    \E p \in Procs : stripe_webhook_read(p, "valid", "checkout.session.completed", TRUE, 1)

NextCheckout == CreateCheckoutSession \/ ConfirmPayment \/ WebhookCommit

SpecCheckout == InitCheckout /\ [][NextCheckout]_vars

C33_PaidOnlyByPaymentConfirmation ==
    [][\A o \in DOMAIN orders :
          (orders[o].status = "pending" /\ orders'[o].status = "paid")
          => \E p \in Procs :
                /\ procs[p].op = "stripe_webhook"
                /\ procs[p].pc = "commit"
                /\ procs[p].order_id = o
                /\ procs'[p].pc = "done"]_vars

\* ---------------------------------------------------------------------------
\* Further properties of access control
\* ---------------------------------------------------------------------------
\* C34: an update_recipe request of a principal who is not a superadmin
\* succeeds only when the principal holds a membership (RESTAURANT_ADMIN or
\* EMPLOYEE) of the restaurant that owns the recipe, whatever restaurant_id
\* the request supplies.
C34_RecipeEditedOnlyByOwnStaff ==
    [][\A p \in Procs :
          (procs'[p].op = "update_recipe" /\ procs'[p].result = "200")
          => \A u \in DOMAIN users, r \in RestaurantIds, recipe_id \in DOMAIN recipes :
                update_recipe(p, u, r, recipe_id, None)
                => \/ users[u] = "superadmin"
                   \/ \E m \in membership_of(u, recipes[recipe_id].restaurant_id) :
                         m.role \in OrgRole]_vars

\* C35: no step of update_order_status, of the webhook or of
\* create_checkout_session changes the customer_id, the restaurant_id, the
\* total_amount or the items of an order; and the commit of an
\* update_order_status request that set no status leaves the status as it is
\* at that moment, whatever other requests did since the order was read.
C35_OnlyStatusAndNotesChange ==
    [][/\ \A o \in DOMAIN orders :
             /\ o \in DOMAIN orders'
             /\ orders'[o].customer_id = orders[o].customer_id
             /\ orders'[o].restaurant_id = orders[o].restaurant_id
             /\ orders'[o].total_amount = orders[o].total_amount
             /\ items'[o] = items[o]
       /\ \A p \in Procs :
             (/\ procs[p].op = "update_order_status"
              /\ procs[p].pc = "commit"
              /\ procs'[p].pc = "done"
              /\ procs[p].set_status = None)
             => orders'[procs[p].order_id].status = orders[procs[p].order_id].status]_vars

\* A request that set only the notes was committed after the order was paid:
\* the order is PAID, with the notes, for the amount and items it was placed with.
C35_Witness ==
    \E p \in Procs :
        /\ procs[p].op = "update_order_status"
        /\ procs[p].result = "200"
        /\ ~procs[p].wrote
        /\ orders[1] = [PlacedOrder EXCEPT !.status = "paid", !.notes = "extra napkins"]
        /\ items[1] = PlacedItems

\* C37: the approval_status of a restaurant becomes APPROVED or REJECTED only
\* from PENDING, through every endpoint that approves or rejects.
C37_ApprovedOrRejectedOnlyFromPending ==
    [][\A r \in DOMAIN restaurants :
          (/\ r \in DOMAIN restaurants'
           /\ restaurants'[r] # restaurants[r]
           /\ restaurants'[r] \in {"approved", "rejected"})
          => restaurants[r] = "pending"]_vars

\* ---------------------------------------------------------------------------
\* User administration under concurrent requests (routes/admin_routes.py).
\* suspend_user and unsuspend_user load the user, check its role and commit
\* the new role in a later statement: two steps each (suspend_user above is
\* the handler served with nothing in between).
\* ---------------------------------------------------------------------------
AdminResponse(p, op, u, user_id, restore_role, result) ==
    [Latest EXCEPT ![p] = [Idle EXCEPT !.op = op, !.user = u, !.member = user_id,
                                      !.restore_role = restore_role, !.result = result]]

\* suspend_user up to the assignment of the role.
suspend_user_get(p, u, user_id) ==
    /\ FirstFree(p)
    /\ procs' =
         IF ~require_superadmin(u)
         THEN AdminResponse(p, "suspend_user", u, user_id, None, "403")
         ELSE IF user_id \notin DOMAIN users
         THEN AdminResponse(p, "suspend_user", u, user_id, None, "404")
         ELSE IF users[user_id] = "superadmin"
         THEN AdminResponse(p, "suspend_user", u, user_id, None, "403")
         ELSE [AdminResponse(p, "suspend_user", u, user_id, "suspended", "none")
                  EXCEPT ![p].pc = "commit"]
    /\ UNCHANGED <<users, memberships, restaurants, recipes, orders, items, channel>>

\* unsuspend_user up to the assignment of the role.
unsuspend_user_get(p, u, user_id, restore_role) ==
    /\ FirstFree(p)
    /\ procs' =
         IF ~require_superadmin(u)
         THEN AdminResponse(p, "unsuspend_user", u, user_id, restore_role, "403")
         ELSE IF user_id \notin DOMAIN users
         THEN AdminResponse(p, "unsuspend_user", u, user_id, restore_role, "404")
         ELSE IF users[user_id] # "suspended"
         THEN AdminResponse(p, "unsuspend_user", u, user_id, restore_role, "400")
         ELSE IF restore_role = "superadmin"
         THEN AdminResponse(p, "unsuspend_user", u, user_id, restore_role, "403")
         ELSE [AdminResponse(p, "unsuspend_user", u, user_id, restore_role, "none")
                  EXCEPT ![p].pc = "commit"]
    /\ UNCHANGED <<users, memberships, restaurants, recipes, orders, items, channel>>

\* session.add(user); session.commit(): UPDATE user SET role = ... WHERE id = ...
user_role_commit(p) ==
    /\ procs[p].op \in {"suspend_user", "unsuspend_user"}
    /\ procs[p].pc = "commit"
    /\ users' = [users EXCEPT ![procs[p].member] = procs[p].restore_role]
    /\ procs' = AdminResponse(p, procs[p].op, procs[p].user, procs[p].member,
                              procs[p].restore_role, "200")
    /\ UNCHANGED <<memberships, restaurants, recipes, orders, items, channel>>

\* root administers; alice owns a restaurant; bob's account is suspended.
InitAdmin ==
    /\ InitManager
    /\ users = [u \in UserIds |-> CASE u = "root" -> "superadmin"
                                    [] u = "alice" -> "restaurant_owner"
                                    [] OTHER -> "suspended"]
    /\ memberships = {Membership("alice", "X", "restaurant_admin")}
    /\ restaurants = [r \in RestaurantIds |-> "approved"]
    /\ recipes = [r \in RecipeIds |->
                    [restaurant_id |-> "X", price |-> IF r = "r1" THEN 1299 ELSE 850]]
    /\ orders = <<>>
    /\ items = <<>>
    /\ procs = [p \in Procs |-> Idle]

SuspendUserGet ==
    \E p \in Procs, u \in {"root", "alice"}, user_id \in UserIds : suspend_user_get(p, u, user_id)

UnsuspendUserGet ==
    \E p \in Procs, u \in {"root", "alice"}, user_id \in UserIds,
       restore_role \in {"customer", "restaurant_owner", "superadmin"} :
        unsuspend_user_get(p, u, user_id, restore_role)

UserRoleCommit == \E p \in Procs : user_role_commit(p)

NextAdmin == SuspendUserGet \/ UnsuspendUserGet \/ UserRoleCommit

SpecAdmin == InitAdmin /\ [][NextAdmin]_vars

\* C36: a step of suspend_user or unsuspend_user changes a user's role only
\* from a role other than SUPERADMIN to SUSPENDED (suspend_user) or from
\* SUSPENDED to a role other than SUPERADMIN (unsuspend_user), on a request of
\* a SUPERADMIN; a request that fails changes no role; the superadmins are
\* the same users after every step.
C36_RoleChangesOnlyToAndFromSuspended ==
    [][/\ \A t \in DOMAIN users :
             users'[t] # users[t]
             => \E p \in Procs :
                   /\ procs[p].pc = "commit"
                   /\ procs'[p].result = "200"
                   /\ procs[p].member = t
                   /\ users[procs[p].user] = "superadmin"
                   /\ \/ /\ procs[p].op = "suspend_user"
                         /\ users[t] # "superadmin"
                         /\ users'[t] = "suspended"
                      \/ /\ procs[p].op = "unsuspend_user"
                         /\ users[t] = "suspended"
                         /\ users'[t] # "superadmin"
       /\ \A p \in Procs :
             (/\ procs'[p] # procs[p]
              /\ procs'[p].op \in {"suspend_user", "unsuspend_user"}
              /\ procs'[p].pc = "done"
              /\ procs'[p].result # "200")
             => users' = users
       /\ {t \in DOMAIN users' : users'[t] = "superadmin"}
             = {t \in DOMAIN users : users[t] = "superadmin"}]_vars

\* C38: every membership and every recipe references a restaurant that
\* exists, in every state; a delete_restaurant request answered 204 for R
\* removes R, every membership of R and every recipe of R, and leaves the
\* memberships and recipes of the other restaurants as they were.
C38_DeleteRestaurantCascades ==
    /\ [](/\ \A m \in memberships : m.restaurant_id \in DOMAIN restaurants
          /\ \A r \in DOMAIN recipes : recipes[r].restaurant_id \in DOMAIN restaurants)
    /\ [][\A p \in Procs :
            (/\ procs'[p] # procs[p]
             /\ procs'[p].op = "delete_restaurant"
             /\ procs'[p].result = "204")
            => LET R == procs'[p].restaurant_id IN
               /\ R \in DOMAIN restaurants
               /\ DOMAIN restaurants' = DOMAIN restaurants \ {R}
               /\ memberships' = {m \in memberships : m.restaurant_id # R}
               /\ DOMAIN recipes' = {r \in DOMAIN recipes : recipes[r].restaurant_id # R}
               /\ \A r \in DOMAIN recipes' : recipes'[r] = recipes[r]]_vars

\* X was deleted with its staff and its menu; the menu of Y is still there.
C38_Witness ==
    \E p \in Procs :
        /\ procs[p].op = "delete_restaurant"
        /\ procs[p].result = "204"
        /\ procs[p].restaurant_id = "X"
        /\ DOMAIN restaurants = {"Y"}
        /\ memberships = {}
        /\ DOMAIN recipes = {"r2"}
        /\ recipes["r2"].restaurant_id = "Y"

\* ---------------------------------------------------------------------------
\* The live-update channel: connections and the fan-out of a notification
\* (routes/websocket_routes.py).  The coroutines share one event loop, so a
\* step runs from one await to the next.
\* ---------------------------------------------------------------------------
Tables == <<users, memberships, restaurants, recipes, orders, items>>

\* self.restaurant_connections[key] / self.customer_connections[key].
connections(d, key) == sets[manager[d][key]]

\* connect_restaurant / connect_customer, entered by the endpoint: once
\* accept() has returned, a key that is not in the dict gets a new set, and
\* the websocket is added; the endpoint then waits in receive_text().
connect(w, d, key) ==
    /\ websockets[w].pc = "new"
    /\ websockets' = [websockets EXCEPT ![w] = [pc |-> "receive_text", dict |-> d,
                                                 key |-> key, peer |-> "open"]]
    /\ IF key \in DOMAIN manager[d]
       THEN /\ sets' = [sets EXCEPT ![manager[d][key]] = @ \cup {w}]
            /\ UNCHANGED manager
       ELSE /\ sets' = Append(sets, {w})
            /\ manager' = [manager EXCEPT ![d] =
                              [k \in DOMAIN manager[d] \cup {key} |->
                                  IF k = key THEN Len(sets) + 1 ELSE manager[d][k]]]
    /\ UNCHANGED <<Tables, procs, tasks>>

\* The client of an accepted websocket goes away: from now on a send to it
\* raises and the pending receive_text() will raise WebSocketDisconnect.
peer_closes(w) ==
    /\ websockets[w].pc = "receive_text"
    /\ websockets[w].peer = "open"
    /\ websockets' = [websockets EXCEPT ![w].peer = "gone"]
    /\ UNCHANGED <<Tables, procs, manager, sets, tasks>>

\* except WebSocketDisconnect: disconnect_restaurant / disconnect_customer
\* discards the websocket and deletes the key when its set is left empty.
disconnect(w) ==
    LET d == websockets[w].dict
        key == websockets[w].key
    IN  /\ websockets[w].pc = "receive_text"
        /\ websockets[w].peer = "gone"
        /\ websockets' = [websockets EXCEPT ![w].pc = "closed"]
        /\ IF key \in DOMAIN manager[d]
           THEN /\ sets' = [sets EXCEPT ![manager[d][key]] = @ \ {w}]
                /\ manager' = IF connections(d, key) \ {w} = {}
                              THEN [manager EXCEPT ![d] =
                                       [k \in DOMAIN manager[d] \ {key} |-> manager[d][k]]]
                              ELSE manager
           ELSE UNCHANGED <<manager, sets>>
        /\ UNCHANGED <<Tables, procs, tasks>>

\* The coroutines that run: how a coroutine ended is kept until the next step
\* of a notify coroutine.
Running == [q \in Procs |-> IF tasks[q].pc = "done" THEN NoTask ELSE tasks[q]]

\* "Clean up dead connections": the dict is looked up again for every dead
\* websocket, so a key that was deleted raises KeyError; the key is kept when
\* its set is left empty.
clean_up(p, t) ==
    IF t.dead_connections = {}
    THEN /\ tasks' = [Running EXCEPT ![p] = [t EXCEPT !.pc = "done", !.websocket = None]]
         /\ UNCHANGED sets
    ELSE IF t.key \notin DOMAIN manager[t.dict]
    THEN /\ tasks' = [Running EXCEPT ![p] = [t EXCEPT !.pc = "done", !.websocket = None,
                                                   !.raised = "KeyError"]]
         /\ UNCHANGED sets
    ELSE /\ tasks' = [Running EXCEPT ![p] = [t EXCEPT !.pc = "done", !.websocket = None]]
         /\ sets' = [sets EXCEPT ![manager[t.dict][t.key]] = @ \ t.dead_connections]

\* "for websocket in self.<dict>[key]": next() of the iterator of the set
\* object the loop started on.  It raises RuntimeError (Set changed size
\* during iteration) when the set has another size than when the iterator
\* was made, and nothing in notify_* catches that; otherwise it yields a
\* websocket of the set it has not yielded, up to the first await of the
\* body, or ends the loop, which a set that was changed without changing its
\* size can make it do early.
for_websocket_in(p, t) ==
    LET cur == sets[t.ref] IN
    IF Cardinality(cur) # t.used
    THEN /\ tasks' = [Running EXCEPT ![p] = [t EXCEPT !.pc = "done", !.websocket = None,
                                                   !.raised = "RuntimeError"]]
         /\ UNCHANGED sets
    ELSE \/ \E w \in cur \ t.seen :
              /\ tasks' = [Running EXCEPT ![p] = [t EXCEPT !.pc = "send_text",
                                                         !.websocket = w,
                                                         !.seen = @ \cup {w}]]
              /\ UNCHANGED sets
         \/ /\ cur \ t.seen = {} \/ cur # t.registered
            /\ clean_up(p, t)

\* notify_restaurant_new_order / notify_customer_order_update, from the call
\* to the first await: nothing is done for a key that is not in the dict.
notify(p, d, key) ==
    /\ tasks[p].pc \in {"none", "done"}
    /\ \A q \in Procs : q < p => tasks[q].pc \notin {"none", "done"}
    /\ IF key \notin DOMAIN manager[d]
       THEN /\ tasks' = [Running EXCEPT ![p] = [NoTask EXCEPT !.pc = "done", !.dict = d,
                                                              !.key = key]]
            /\ UNCHANGED sets
       ELSE for_websocket_in(p, [NoTask EXCEPT !.dict = d, !.key = key,
                                               !.ref = manager[d][key],
                                               !.used = Cardinality(connections(d, key)),
                                               !.registered = connections(d, key)])
    /\ UNCHANGED <<Tables, procs, websockets, manager>>

\* await websocket.send_text(message) is over: it raised if the peer is gone,
\* and the websocket is then put into dead_connections; the loop goes on.
send_text(p) ==
    LET t == tasks[p]
        w == t.websocket
        failed == websockets[w].peer = "gone"
    IN  /\ t.pc = "send_text"
        /\ for_websocket_in(p, [t EXCEPT !.attempted = @ \cup {w},
                                         !.dead_connections =
                                             IF failed THEN @ \cup {w} ELSE @])
        /\ UNCHANGED <<Tables, procs, websockets, manager>>

\* No connection, no order: only the channel moves.
InitChannel ==
    /\ InitManager
    /\ users = [u \in UserIds |-> IF u = "root" THEN "superadmin" ELSE "customer"]
    /\ memberships = {}
    /\ restaurants = [r \in RestaurantIds |-> "approved"]
    /\ recipes = [r \in RecipeIds |-> [restaurant_id |-> "X", price |-> 1299]]
    /\ orders = <<>>
    /\ items = <<>>
    /\ procs = [p \in Procs |-> Idle]

RestaurantWebsocket == \E w \in WebSockets : connect(w, "restaurant_connections", "X")

CustomerWebsocket == connect("w3", "customer_connections", "alice")

PeerCloses == \E w \in WebSockets : peer_closes(w)

WebSocketDisconnect == \E w \in WebSockets : disconnect(w)

NotifyNewOrder == \E p \in Procs : notify(p, "restaurant_connections", "X")

NotifyOrderStatusChange == \E p \in Procs : notify(p, "customer_connections", "alice")

SendText == \E p \in Procs : send_text(p)

NextChannel ==
    \/ RestaurantWebsocket \/ CustomerWebsocket \/ PeerCloses \/ WebSocketDisconnect
    \/ NotifyNewOrder \/ NotifyOrderStatusChange \/ SendText

SpecChannel == InitChannel /\ [][NextChannel]_vars

\* C39: a fan-out never ends by raising; it attempts only websockets that
\* were registered under its key; once it has ended it has attempted every
\* websocket that was registered under its key when it started, and no
\* websocket whose send failed is left in the registry under that key.
C39_FanOutReachesEveryConnection ==
    \A p \in Procs :
        LET t == tasks[p] IN
        /\ t.raised = None
        /\ \A w \in t.attempted :
              websockets[w].dict = t.dict /\ websockets[w].key = t.key
        /\ t.pc = "done" =>
              /\ t.registered \subseteq t.attempted
              /\ \A w \in t.dead_connections :
                    t.key \in DOMAIN manager[t.dict] => w \notin connections(t.dict, t.key)

\* The number of changes the transition table still allows from a status: the
\* longest path of valid_transitions that starts there (4 from PENDING).
RECURSIVE changes_left(_)
changes_left(s) ==
    IF valid_transitions(s) = {} THEN 0
    ELSE LET below == {changes_left(n) : n \in valid_transitions(s)}
         IN  1 + CHOOSE m \in below : \A k \in below : k <= m

\* C40: every step that changes the status of an order moves it to a status
\* from which the transition table allows fewer further changes, so that the
\* status never returns to a value it held and changes at most four times.
C40_StatusNeverReturns ==
    /\ changes_left("pending") = 4
    /\ [][\A o \in DOMAIN orders :
            orders'[o].status # orders[o].status
            => changes_left(orders'[o].status) < changes_left(orders[o].status)]_vars
====
